---- MODULE Spec2Model ----
(***************************************************************************)
(* A model of the entity simulation engine of src/src/App.js: the tent     *)
(* ownership (capture) engine, the collision pass and the autonomous       *)
(* actors, the player's attack states with their timers, and the grid      *)
(* pathfinding front end.                                                  *)
(*                                                                         *)
(* The module holds several specifications over one set of variables.      *)
(* Each specification leaves the variables of the other parts unchanged.   *)
(*   Spec         : the capture engine at handler granularity              *)
(*   SpecWorld    : the frame loop with two tents and their people         *)
(*   SpecLife     : the frame loop with one tent, the Tequila and one person*)
(*   SpecEditor   : SpecLife with the editor's delete tool                 *)
(*   SpecNear     : SpecLife with the Tequila by the tent                  *)
(*   SpecScreen   : SpecLife from the title screen                         *)
(*   SpecTimer    : the player's attack states against the clock           *)
(*   SpecFlee     : one fleeing actor against the clock                    *)
(*   SpecRespawn  : the Tequila against the clock                          *)
(*   SpecPiss     : the player's piss against the clock                    *)
(*   SpecTent     : the tents against the clock                            *)
(*   SpecEnergy   : the player's energy, three tents and a CheeseSandwich  *)
(*   SpecSpawn    : spawnObjectOfType and removeWorldObject                *)
(*   SpecPath     : findPath and path following on a small grid            *)
(*   SpecGrid     : the tile and position operations of Grid               *)
(*   SpecCollision: the rectangle test collision(a, b)                     *)
(***************************************************************************)
EXTENDS Integers, Sequences, FiniteSets, TLC

VARIABLES
    tents,            \* Tent fields: id -> [pissiness, damageTaken, occupied, captured]
    tentX,            \* Tent.pos along the row the tents stand in (fixed by the level)
    tentAdjacencies,  \* Game.tentAdjacencies: id -> list of ids
    tentGroups,       \* Game.tentGroups: id -> "red" | "green" | "blue" | "none" (no entry)
    scoreGain,        \* what the last handler added to Player.score (the score is only ever added to)
    bonusAwarded,     \* the tents the last handler added the capture bonus for (history)
    recomputed,       \* whether checkForTentGroupsAdjacent has run since the game started (history)
    worldObjects,     \* Game.worldObjects: the ids in array order
    worldObjectsByID, \* Game.worldObjectsByID: the ids it has an entry for
    goers,            \* AIFestivalGoer fields: id -> record
    player,           \* Player fields
    pissArea,         \* what the PissArea of the running FreePissingState covers
    tequila,          \* Tequila fields
    powerups,         \* the fields of the other Powerups of the level: id -> record
    now,              \* Date.now(), in ms since the game started
    enteredAt,        \* Date.now() at the first update of the player's state (history)
    intersecting,     \* the tents whose intersectingPissArea is set
    frame,            \* Game.frame
    updateIndex,      \* i of the update loop of Game.update, counted from 1
    occupants,        \* tent -> the actors that entered it, in order (history)
    removals,         \* actor -> how often removeWorldObject removed it (history)
    threw,            \* whether a handler threw (history)
    handled,          \* the calls of _handleCollision in the last collision pass, each
                      \* with what enabled was on the two objects at the call (history)
    contended,        \* the usable tents that two or more actors whose target they were
                      \* overlapped when the last collision pass started (history)
    screen,           \* Game.screen: "title" | "play"
    updates,          \* the objects whose update() Game.update has called in the
                      \* running frame, in the order of the calls (history)
    tileGrid,         \* Grid.tileGrid: row -> column -> walkability
    seeker,           \* the actor of SpecPath: its centre and its pathfinding fields
    maxId,            \* GameObject.maxId
    objectClasses,    \* id -> the constructor that made the object with that id
    spawnCall,        \* the type the last call of spawnObjectOfType was made with (history)
    gridCall,         \* the last call of an operation of Grid: its arguments and what
                      \* it returned (history)
    collisionCall     \* the last call of collision(a, b): the two objects and what it
                      \* returned (history)

groupVars == <<tents, tentX, tentAdjacencies, tentGroups, scoreGain, bonusAwarded, recomputed>>

worldVars == <<worldObjects, worldObjectsByID, goers, player, pissArea, tequila, powerups,
               now, enteredAt, intersecting,
               frame, updateIndex, occupants, removals, threw, handled, contended,
               screen, updates>>

pathVars == <<tileGrid, seeker>>

loadVars == <<maxId, objectClasses, spawnCall>>

unitVars == <<loadVars, gridCall, collisionCall>>

vars == <<groupVars, worldVars, pathVars, unitVars>>

-----------------------------------------------------------------------------
(* Program constants *)

MAX_CAPTURABLE_TENT_GROUP == 3
TENT_ADJACENCY_RADIUS == 100
MAX_DAMAGE == 1
MAX_PISSINESS == 3
UNUSUABLE_PISSINESS == 1
PISS_SCORE == 100
CAPTURE_BONUS == 500

(* Bounds of the model *)

NumTents == 4        \* tents in the level

Tents == 1..NumTents

\* Distances between neighbouring tents of the row that the levels of the model use:
\* 50 makes a tent adjacent to the next two, 120 separates two tents.
TentGaps == {50, 120}

Null == 0

SeqToSet(list) == {list[i] : i \in 1..Len(list)}

-----------------------------------------------------------------------------
(* Tent *)

NewTent == [pissiness |-> 0, damageTaken |-> 0, occupied |-> FALSE, captured |-> FALSE]

IsRuinedByPlayer(tent) ==
    tent.pissiness >= MAX_PISSINESS \/ tent.damageTaken >= MAX_DAMAGE

\* Tent.enabled is true for every tent in play (only the editor changes it).
IsUsable(tent) ==
    /\ tent.pissiness < UNUSUABLE_PISSINESS
    /\ ~IsRuinedByPlayer(tent)
    /\ ~tent.occupied
    /\ ~tent.captured

CanDamage(tent) == tent.damageTaken < MAX_DAMAGE

CanPissOn(tent) ==
    /\ tent.pissiness < MAX_PISSINESS
    /\ ~IsRuinedByPlayer(tent)
    /\ ~tent.occupied
    /\ ~tent.captured

DoDamage(tent) ==
    IF tent.damageTaken < MAX_DAMAGE
    THEN [tent EXCEPT !.damageTaken = @ + 1]
    ELSE tent

PissOn(tent) ==
    IF tent.pissiness < MAX_PISSINESS
    THEN [tent EXCEPT !.pissiness = @ + 1]
    ELSE tent

Occupy(tent) == [tent EXCEPT !.occupied = TRUE]

-----------------------------------------------------------------------------
(* Game.initTentAdjacencies *)

Abs(n) == IF n < 0 THEN -n ELSE n

\* tents[k].getCenter().distanceTo(center) <= TENT_ADJACENCY_RADIUS, the tents
\* standing in one row (equal y), so that the distance is |dx|.
WithinAdjacencyRadius(xs, i, k) == Abs(xs[k] - xs[i]) <= TENT_ADJACENCY_RADIUS

RECURSIVE AdjacencyList(_, _, _)
AdjacencyList(xs, i, k) ==
    IF k > Len(xs) THEN <<>>
    ELSE (IF i # k /\ WithinAdjacencyRadius(xs, i, k) THEN <<k>> ELSE <<>>)
         \o AdjacencyList(xs, i, k + 1)

InitTentAdjacencies(xs) == [i \in DOMAIN xs |-> AdjacencyList(xs, i, 1)]

-----------------------------------------------------------------------------
(* Game._checkForTentGroup: the depth-first flood over tentAdjacencies *)

RECURSIVE Visit(_, _, _, _), VisitAdjacent(_, _, _, _, _)

\* Mutant of Visit: the flood does not stop at a ruined tent.
Visit_ThroughRuined(tent, acc, ts, adj) ==
    VisitAdjacent(adj[tent], 1,
                  [visited |-> acc.visited \cup {tent},
                   containsOccupant |-> acc.containsOccupant \/ ts[tent].occupied],
                  ts, adj)

\* Mutant of VisitAdjacent: the loop leaves after the first adjacency.
VisitAdjacent_FirstOnly(list, i, acc, ts, adj) ==
    IF i > Len(list) \/ i > 1 THEN acc
    ELSE IF list[i] \in acc.visited THEN acc
    ELSE Visit(list[i], acc, ts, adj)

\* visit(tent): acc is [visited, containsOccupant]
Visit(tent, acc, ts, adj) ==
    IF IsRuinedByPlayer(ts[tent])
    THEN acc    \* always stop here
    ELSE VisitAdjacent(adj[tent], 1,
                       [visited |-> acc.visited \cup {tent},
                        containsOccupant |-> acc.containsOccupant \/ ts[tent].occupied],
                       ts, adj)

\* the for loop over adjacencies
VisitAdjacent(list, i, acc, ts, adj) ==
    IF i > Len(list) THEN acc
    ELSE VisitAdjacent(list, i + 1,
                       IF list[i] \in acc.visited THEN acc
                       ELSE Visit(list[i], acc, ts, adj),
                       ts, adj)

CheckForTentGroup(start, ts, adj) ==
    Visit(start, [visited |-> {}, containsOccupant |-> FALSE], ts, adj)

-----------------------------------------------------------------------------
(* Game._findAndColorTentGroup and Game.checkForTentGroupsAdjacent.         *)
(* g is the game as a handler sees it, a record with at least the fields    *)
(* tents, tentGroups, score (what the running handler has added to          *)
(* Player.score so far), bonus (the tents it added the 500 for) and         *)
(* recomputed (whether a recompute has run since the game started).         *)

\* Mutant of GroupColor: the size of the group is not looked at.
GroupColor_NoCap(tent, found) ==
    IF IsRuinedByPlayer(tent) THEN "green"
    ELSE IF found.containsOccupant THEN "red"
    ELSE "blue"

\* Mutant of GroupColor: a small group is captured whether it holds an occupant
\* or not.
GroupColor_IgnoreOccupant(tent, found) ==
    IF IsRuinedByPlayer(tent) THEN "green"
    ELSE IF Cardinality(found.visited) > MAX_CAPTURABLE_TENT_GROUP THEN "keep"
    ELSE "blue"

GroupColor(tent, found) ==
    IF IsRuinedByPlayer(tent) THEN "green"
    ELSE IF Cardinality(found.visited) > MAX_CAPTURABLE_TENT_GROUP THEN "keep"
    ELSE IF found.containsOccupant THEN "red"
    ELSE "blue"

\* Mutant of FindAndColorTentGroup: the bonus is paid for every tent colored
\* 'blue', captured before or not.
FindAndColorTentGroup_PaysAgain(start, g, adj) ==
    LET found == CheckForTentGroup(start, g.tents, adj)
        colorOf(t) == GroupColor(g.tents[t], found)
        blue == {t \in found.visited : colorOf(t) = "blue"}
    IN  [g EXCEPT
           !.tents = [t \in DOMAIN g.tents |->
                      IF t \in blue THEN [g.tents[t] EXCEPT !.captured = TRUE]
                      ELSE g.tents[t]],
           !.tentGroups = [t \in DOMAIN g.tents |->
                      IF t \in found.visited /\ colorOf(t) # "keep"
                      THEN colorOf(t)
                      ELSE g.tentGroups[t]],
           !.score = g.score + CAPTURE_BONUS * Cardinality(blue),
           !.bonus = g.bonus \cup blue]

FindAndColorTentGroup(start, g, adj) ==
    LET found == CheckForTentGroup(start, g.tents, adj)
        colorOf(t) == GroupColor(g.tents[t], found)
        newlyCaptured == {t \in found.visited : colorOf(t) = "blue" /\ ~g.tents[t].captured}
    IN  [g EXCEPT
           !.tents = [t \in DOMAIN g.tents |->
                      IF t \in found.visited /\ colorOf(t) = "blue"
                      THEN [g.tents[t] EXCEPT !.captured = TRUE]
                      ELSE g.tents[t]],
           !.tentGroups = [t \in DOMAIN g.tents |->
                      IF t \in found.visited /\ colorOf(t) # "keep"
                      THEN colorOf(t)
                      ELSE g.tentGroups[t]],
           !.score = g.score + CAPTURE_BONUS * Cardinality(newlyCaptured),
           !.bonus = g.bonus \cup newlyCaptured]

RECURSIVE ColorFrom(_, _, _)
\* typeFilter(worldObjects, Tent).forEach(tent => _findAndColorTentGroup(tent)):
\* the tents are the first objects spawned, in id order.
ColorFrom(i, g, adj) ==
    IF i > Len(g.tents) THEN g
    ELSE ColorFrom(i + 1, FindAndColorTentGroup(i, g, adj), adj)

CheckForTentGroupsAdjacent(g, adj) ==
    ColorFrom(1, [g EXCEPT !.tentGroups = [t \in DOMAIN g.tents |-> "none"],
                           !.recomputed = TRUE], adj)

-----------------------------------------------------------------------------
(* Spec: the capture engine at handler granularity.  Each action is one     *)
(* handler that changes a tent, with the recompute it fires.                *)

RECURSIVE RowX(_, _)
\* The position of tent i in the row whose gaps are gaps[1], gaps[2], ...
RowX(gaps, i) == IF i = 1 THEN 0 ELSE RowX(gaps, i - 1) + gaps[i - 1]

\* The rows of tents a level can hold: the first tent at 0, each next one a gap further.
\* Only the first tent may stand apart: the other groupings come about in play,
\* by ruining tents.
Levels(n) ==
    {[i \in 1..n |-> RowX(gaps, i)] :
        gaps \in {g \in [1..(n - 1) -> TentGaps] :
                    \A i \in DOMAIN g : i > 1 => g[i] <= TENT_ADJACENCY_RADIUS}}

\* The variables of the other specifications, for one that does not use them.
NoWorld ==
    /\ worldObjects = <<>> /\ worldObjectsByID = {} /\ goers = <<>> /\ player = <<>>
    /\ pissArea = <<>> /\ intersecting = {} /\ frame = 0 /\ updateIndex = 1
    /\ tequila = <<>> /\ now = 0 /\ enteredAt = 0
    /\ occupants = <<>> /\ removals = <<>> /\ threw = FALSE /\ handled = {}
    /\ contended = {} /\ screen = "title" /\ updates = <<>> /\ powerups = <<>>

NoPath == tileGrid = <<>> /\ seeker = <<>>

NoLoad == maxId = 0 /\ objectClasses = <<>> /\ spawnCall = ""

NoGridCall == [op |-> "", point |-> <<>>, setTo |-> <<>>, result |-> <<>>]

NoCollisionCall == [a |-> <<>>, b |-> <<>>, result |-> <<>>]

NoUnit == NoLoad /\ gridCall = NoGridCall /\ collisionCall = NoCollisionCall

NoTents ==
    /\ tents = <<>> /\ tentX = <<>> /\ tentAdjacencies = <<>> /\ tentGroups = <<>>
    /\ scoreGain = 0 /\ bonusAwarded = {} /\ recomputed = FALSE

\* The tents at the end of Game.startGame.
GroupInit ==
    /\ NoWorld
    /\ NoPath
    /\ NoUnit
    /\ tentX \in Levels(NumTents)
    /\ tents = [t \in Tents |-> NewTent]
    /\ tentAdjacencies = InitTentAdjacencies(tentX)
    /\ tentGroups = [t \in Tents |-> "none"]
    /\ scoreGain = 0
    /\ bonusAwarded = {}
    /\ recomputed = FALSE

\* What a handler starts from: the tents, the coloring, and no points added yet.
Game == [tents |-> tents, tentGroups |-> tentGroups, score |-> 0, bonus |-> {},
         recomputed |-> recomputed]

SetGame(g) ==
    /\ tents' = g.tents
    /\ tentGroups' = g.tentGroups
    /\ scoreGain' = g.score
    /\ bonusAwarded' = g.bonus
    /\ recomputed' = g.recomputed

\* SmashingState.exit on target t (the smoke animation apart): the damage and the
\* recompute.
SmashingStateExit(g, t, adj) ==
    CheckForTentGroupsAdjacent([g EXCEPT !.tents[t] = DoDamage(@)], adj)

\* A pissThrottled whose callback never asks for the recompute.
PissThrottled_NoRecompute(g, t, adj) ==
    [g EXCEPT !.tents[t] = PissOn(@), !.score = @ + PISS_SCORE]

\* Tent.pissThrottled's callback on tent t.
PissThrottled(g, t, adj) ==
    LET pissed == [g EXCEPT !.tents[t] = PissOn(@), !.score = @ + PISS_SCORE]
    IN  IF IsRuinedByPlayer(pissed.tents[t])
        THEN CheckForTentGroupsAdjacent(pissed, adj)
        ELSE pissed

\* Tent.dryThrottled's callback on tent t.
DryThrottled(g, t) == [g EXCEPT !.tents[t].pissiness = @ - 1]

\* The else branch of AIFestivalGoer.enterTent, as far as the tent goes.
OccupyTent(g, t, adj) ==
    CheckForTentGroupsAdjacent([g EXCEPT !.tents[t] = Occupy(@)], adj)

\* SmashingState.exit on target t, when the state's timer is done.  The state was
\* entered by Player.doSmash, which asks tent.canDamage(); nothing but this exit
\* damages a tent.
SmashingExit(t) ==
    /\ CanDamage(tents[t])
    /\ SetGame(SmashingStateExit(Game, t, tentAdjacencies))
    /\ UNCHANGED <<tentX, tentAdjacencies, worldVars, pathVars, unitVars>>

\* Tent.update of a tent the effect area was recorded on and that canPissOn(),
\* when pissThrottled lets the call through.
TentPissThrottled(t) ==
    /\ CanPissOn(tents[t])
    /\ SetGame(PissThrottled(Game, t, tentAdjacencies))
    /\ UNCHANGED <<tentX, tentAdjacencies, worldVars, pathVars, unitVars>>

\* Mutant of TentDry: a tent dries at MAX_PISSINESS as well.
TentDry_AtMax(t) ==
    /\ tents[t].pissiness > 0
    /\ SetGame(DryThrottled(Game, t))
    /\ UNCHANGED <<tentX, tentAdjacencies, worldVars, pathVars, unitVars>>

\* Tent.update when dryThrottled lets the call through.
TentDry(t) ==
    /\ tents[t].pissiness > 0
    /\ tents[t].pissiness < MAX_PISSINESS
    /\ SetGame(DryThrottled(Game, t))
    /\ UNCHANGED <<tentX, tentAdjacencies, worldVars, pathVars, unitVars>>

\* AIFestivalGoer.enterTent(t) of an actor whose target is t and that collides
\* with t, the tent being usable.
EnterTent(t) ==
    /\ IsUsable(tents[t])
    /\ SetGame(OccupyTent(Game, t, tentAdjacencies))
    /\ UNCHANGED <<tentX, tentAdjacencies, worldVars, pathVars, unitVars>>

GroupNext ==
    \/ \E t \in Tents : SmashingExit(t)
    \/ \E t \in Tents : TentPissThrottled(t)
    \/ \E t \in Tents : TentDry(t)
    \/ \E t \in Tents : EnterTent(t)

-----------------------------------------------------------------------------
(* SpecWorld: Game.update frame by frame.  The objects of worldObjects are   *)
(* updated one after the other in array order, then the collision pass runs *)
(* over the whole array.                                                    *)
(*                                                                          *)
(* Positions are kept as places: an actor is in the open (0, where the bus  *)
(* lets people out) or its box overlaps the box of tent t (place t).  A     *)
(* powerup stands apart from the tents or by the box of one tent; the box   *)
(* of an actor on that tent's box may then overlap the powerup as well.     *)

\* GameObject.id: the tents are 1..n; the other objects get the ids below.
PlayerId == 100
PissAreaId == 200
SmokeId == 300
TequilaId == 400
WaterId == 500
CheeseSandwichId == 600
PLAYER_ENERGY == 3
SMASH_SCORE == 100
TEQUILA_RESPAWN_TIME == 60000
POWERUP_RESPAWN_TIME == 10000
MAX_ENERGY == 10
CHEESE_SANDWICH_VALUE == 3
\* Player.piss counted in thousandths: Player.MAX_PISS, the piss of a new Player,
\* Water.VALUE, the adjustPiss(0.005) of Player.update and the piss-- of
\* FreePissingState.
MAX_PISS == 10000
PLAYER_PISS == 10000
WATER_VALUE == 3000
PISS_REGENERATION == 5
PISS_UNIT == 1000
FREE_PISS_TIME == 500

WorldTents == 2        \* tents (and so autonomous actors) of the level of SpecWorld
MaxFrames == 4         \* frames SpecWorld runs for

GoerIds == {PlayerId + n : n \in 1..WorldTents}
IsTentId(o) == o < PlayerId
IsGoerId(o) == o > PlayerId /\ o < PissAreaId

Places == 0..WorldTents
Nowhere == -1
\* Where the bus lets people out, on the row of the tents.
SpawnX == -60

\* enters and updated belong to the state object that is the current state: how
\* often its enter() ran and whether its update() ran.  log lists the calls made on
\* the states of the object since the game last called one of its handlers
\* (history); its first entry names the state the handler found.
NewGoer == [enabled |-> TRUE, target |-> Null, pathfindingTargetPos |-> Null,
            path |-> "null", isPathfinding |-> FALSE, state |-> "IdleState",
            alreadyCalledOnce |-> FALSE, at |-> 0, onPowerup |-> FALSE,
            firstStateEntered |-> FALSE, enters |-> 0, updated |-> FALSE, log |-> <<>>]

\* at is the powerup the box of the player overlaps, Null when there is none.
NewPlayer == [state |-> "IdleState", target |-> Null, energy |-> PLAYER_ENERGY,
              alreadyCalledOnce |-> FALSE, at |-> Null,
              firstStateEntered |-> FALSE, enters |-> 0, updated |-> FALSE, log |-> <<>>]

\* The Tequila of the level: its PowerupState, the closure of shouldRespawn, and
\* the tent it stands by (Nowhere when it stands apart).
NewTequila == [enabled |-> TRUE, state |-> "AvailablePowerupState",
               alreadyCalledOnce |-> FALSE, lastStart |-> 0, at |-> Nowhere,
               initialStateEntered |-> FALSE, enters |-> 0, updated |-> FALSE,
               log |-> <<>>]

\* A PissArea that covers nothing.
NewPissArea == [at |-> Nowhere, tent |-> FALSE, goers |-> FALSE]

\* Where FreePissingState.update can put the area: on the box of a tent, on the
\* actors at a place, or both.
PissSpots ==
    {NewPissArea, [at |-> 0, tent |-> FALSE, goers |-> TRUE]}
    \cup {[at |-> t, tent |-> cover[1], goers |-> cover[2]] :
            t \in 1..WorldTents,
            cover \in {<<TRUE, FALSE>>, <<FALSE, TRUE>>, <<TRUE, TRUE>>}}

\* Mutant of AddWorldObject: the object is put at the head of the array.
AddWorldObject_Unshift(w, obj) ==
    [w EXCEPT !.worldObjects = <<obj>> \o @,
              !.worldObjectsByID = @ \cup {obj}]

AddWorldObject(w, obj) ==
    [w EXCEPT !.worldObjects = Append(@, obj),
              !.worldObjectsByID = @ \cup {obj}]

\* Array.indexOf, counting from 1; 0 when obj is not in the list.
IndexOf(list, obj) ==
    IF \E i \in DOMAIN list : list[i] = obj
    THEN CHOOSE i \in DOMAIN list : list[i] = obj /\ \A j \in 1..(i - 1) : list[j] # obj
    ELSE 0

\* Array.splice(index, 1)
Splice(list, index) == SubSeq(list, 1, index - 1) \o SubSeq(list, index + 1, Len(list))

\* removals counts the removals of each autonomous actor (history); threw records
\* the Error thrown when obj is not in worldObjects (history).
RemoveWorldObject(w, obj) ==
    LET index == IndexOf(w.worldObjects, obj)
    IN  IF index > 0
        THEN [w EXCEPT !.worldObjects = Splice(@, index),
                       !.worldObjectsByID = @ \ {obj},
                       !.removals = [o \in DOMAIN @ |-> IF o = obj THEN @[o] + 1 ELSE @[o]]]
        ELSE [w EXCEPT !.threw = TRUE]

\* Utils.trueAfterDelay: the first call passes the throttle (lastStart is 0) and
\* only notes that it was made; a later call answers true once the cooldown has
\* elapsed since the last call that passed.
TrueAfterDelay(alreadyCalledOnce, elapsed) ==
    IF ~alreadyCalledOnce
    THEN [done |-> FALSE, alreadyCalledOnce |-> TRUE]
    ELSE [done |-> elapsed, alreadyCalledOnce |-> TRUE]

\* An entry of log: the call, the state it was made on (for "set" the state
\* assigned), the state an update returned ("" for none), and how often enter()
\* has run on that state object.
Event(op, state, returned, enters) ==
    [op |-> op, state |-> state, returned |-> returned, enters |-> enters]

\* A handler of the object starts: the log starts anew.
LogStart(obj) == [obj EXCEPT !.log = <<Event("start", obj.state, "", obj.enters)>>]

\* this.state.exit(game), as the log sees it
StateExit(obj) == [obj EXCEPT !.log = Append(@, Event("exit", obj.state, "", obj.enters))]

\* this.state = nextState: a new state object, with a new timer
StateSet(obj, nextState) ==
    [obj EXCEPT !.state = nextState, !.alreadyCalledOnce = FALSE,
                !.enters = 0, !.updated = FALSE,
                !.log = Append(@, Event("set", nextState, "", 0))]

\* this.state.enter(game), as the log sees it
StateEnter(obj) ==
    [obj EXCEPT !.enters = @ + 1,
                !.log = Append(@, Event("enter", obj.state, "", obj.enters + 1))]

\* this.state.update(game) returned: nextState is "" when it returned nothing.
\* state is the state object the call was made on.
StateUpdated(obj, state, nextState) ==
    [obj EXCEPT !.log = Append(@, Event("update", state, nextState, 0))]

\* Mutant of TransitionTo: the next state is entered before the old one is left.
TransitionTo_EnterFirst(goer, nextState) ==
    StateExit(StateSet(StateEnter(goer), nextState))

\* FestivalGoer.transitionTo: the states of the actors have no enter or exit
\* effect.
TransitionTo(goer, nextState) ==
    StateEnter(StateSet(StateExit(goer), nextState))

\* Mutant of FestivalGoerClearTarget: the path is kept.
FestivalGoerClearTarget_KeepPath(goer) ==
    [goer EXCEPT !.target = Null, !.pathfindingTargetPos = Null]

\* FestivalGoer.clearTarget
FestivalGoerClearTarget(goer) ==
    [goer EXCEPT !.target = Null, !.pathfindingTargetPos = Null, !.path = "null"]

\* A clearTarget after which the result of a search that was under way is applied.
ClearTarget_ResultApplied(goer) ==
    TransitionTo([FestivalGoerClearTarget(goer) EXCEPT
                     !.path = IF goer.isPathfinding THEN "path" ELSE "null",
                     !.isPathfinding = FALSE],
                 "IdleState")

\* A clearTarget that leaves the actor in the state it is in.
ClearTarget_SameState(goer) == FestivalGoerClearTarget(goer)

\* AIFestivalGoer.clearTarget
ClearTarget(goer) == TransitionTo(FestivalGoerClearTarget(goer), "IdleState")

\* Mutant of RunFromPiss: the target is kept.
RunFromPiss_KeepTarget(goer) == TransitionTo(goer, "FleeingState")

\* Mutant of RunFromPiss: an actor that is fleeing keeps the timer it has.
RunFromPiss_NoRestart(goer) ==
    [TransitionTo(ClearTarget(goer), "FleeingState") EXCEPT
        !.alreadyCalledOnce = goer.state = "FleeingState" /\ goer.alreadyCalledOnce]

\* AIFestivalGoer.runFromPiss
RunFromPiss(goer) == TransitionTo(ClearTarget(goer), "FleeingState")

\* Mutant of AIEnterTent: the tent is entered whether it is usable or not.
AIEnterTent_Unchecked(w, a, t, adj) ==
    RemoveWorldObject(
        OccupyTent([w EXCEPT !.goers[a].enabled = FALSE,
                             !.occupants[t] = Append(@, a)], t, adj),
        a)

\* AIFestivalGoer.enterTent; occupants lists who entered each tent (history).
AIEnterTent(w, a, t, adj) ==
    IF ~IsUsable(w.tents[t])
    THEN [w EXCEPT !.goers[a] = ClearTarget(@)]
    ELSE RemoveWorldObject(
             OccupyTent([w EXCEPT !.goers[a].enabled = FALSE,
                                  !.occupants[t] = Append(@, a)], t, adj),
             a)

\* The objects of worldObjects that are Tents / AIFestivalGoers (typeFilter).
TentsOf(w) == {o \in SeqToSet(w.worldObjects) : IsTentId(o)}
GoersOf(w) == {o \in SeqToSet(w.worldObjects) : IsGoerId(o)}

\* The centre of an actor along the row of the tents.
GoerX(goer, xs) == IF goer.at = 0 THEN SpawnX ELSE xs[goer.at]

\* Mutant of Closest: the tent furthest away is taken.
Closest_Furthest(candidates, goer, xs) ==
    IF candidates = {} THEN Null
    ELSE CHOOSE t \in candidates :
            \A u \in candidates :
                \/ Abs(xs[t] - GoerX(goer, xs)) > Abs(xs[u] - GoerX(goer, xs))
                \/ Abs(xs[t] - GoerX(goer, xs)) = Abs(xs[u] - GoerX(goer, xs)) /\ t <= u

\* closest() of tryAcquireTarget: reduce keeps the earlier tent on equal
\* distance (the list is in worldObjects order, that is in id order); Null for
\* an empty list.
Closest(candidates, goer, xs) ==
    IF candidates = {} THEN Null
    ELSE CHOOSE t \in candidates :
            \A u \in candidates :
                \/ Abs(xs[t] - GoerX(goer, xs)) < Abs(xs[u] - GoerX(goer, xs))
                \/ Abs(xs[t] - GoerX(goer, xs)) = Abs(xs[u] - GoerX(goer, xs)) /\ t <= u

\* Mutant of TryAcquireTarget: every tent of the world is a candidate.
TryAcquireTarget_AnyTent(w, a, xs) ==
    [w.goers[a] EXCEPT !.target = Closest(TentsOf(w), w.goers[a], xs)]

\* AIFestivalGoer.tryAcquireTarget
TryAcquireTarget(w, a, xs) ==
    LET alreadyTargeted == {w.goers[o].target : o \in GoersOf(w)} \ {Null}
        usableTents == {t \in TentsOf(w) : IsUsable(w.tents[t])}
        untargetedUsableTents == usableTents \ alreadyTargeted
        untargeted == Closest(untargetedUsableTents, w.goers[a], xs)
        candidate == IF untargeted # Null THEN untargeted
                     ELSE Closest(usableTents, w.goers[a], xs)
    IN  [w.goers[a] EXCEPT !.target = candidate]

\* FestivalGoer.findPath as the actor's fields see it: a search that yields a
\* route sets path and resets isPathfinding; every other outcome leaves path null
\* and isPathfinding set.  (SpecPath has the search itself.)
FindPathOutcome(goer, found) ==
    IF found
    THEN [goer EXCEPT !.path = "path", !.isPathfinding = FALSE]
    ELSE [goer EXCEPT !.isPathfinding = TRUE]

\* updateMove of the actor's state and the change of position that follows it.
\* move is where the step of this frame leads: "stay" where the actor is, "open"
\* away from the tents, "arrive" onto the box of the tent walked to, "beside"
\* onto that box where the powerup standing by it is overlapped too.
UpdateMove(goer, found, move) ==
    IF goer.state = "FleeingState"
    THEN IF move = "open" THEN [goer EXCEPT !.at = 0, !.onPowerup = FALSE] ELSE goer
    ELSE IF goer.state = "TargetSeekingState" /\ goer.pathfindingTargetPos # Null
    THEN IF goer.path = "null" /\ ~goer.isPathfinding
         THEN FindPathOutcome(goer, found)
         ELSE IF goer.path # "null" /\ move \in {"arrive", "beside"}
         THEN [goer EXCEPT !.at = goer.pathfindingTargetPos,
                           !.onPowerup = move = "beside"]
         ELSE goer
    ELSE goer

\* FestivalGoer.updateState of an autonomous actor: TargetSeekingState.update and
\* FleeingState.update.
GoerUpdateState(w, goer, elapsed) ==
    LET called == [goer EXCEPT !.updated = TRUE]
    IN  IF goer.state = "TargetSeekingState"
        THEN StateUpdated(IF goer.target # Null /\ ~IsUsable(w.tents[goer.target])
                          THEN ClearTarget(called)
                          ELSE called,
                          goer.state, "")
        ELSE IF goer.state = "FleeingState"
        THEN LET timer == TrueAfterDelay(goer.alreadyCalledOnce, elapsed)
             IN  IF timer.done
                 THEN TransitionTo(StateUpdated(called, goer.state, "IdleState"),
                                   "IdleState")
                 ELSE StateUpdated([called EXCEPT
                                       !.alreadyCalledOnce = timer.alreadyCalledOnce],
                                   goer.state, "")
        ELSE StateUpdated(called, goer.state, "")

\* FestivalGoer.update: the first state is entered once.
FestivalGoerUpdate(goer) ==
    IF ~goer.firstStateEntered
    THEN StateEnter([goer EXCEPT !.firstStateEntered = TRUE])
    ELSE goer

\* AIFestivalGoer.update
AIUpdate(w, a, xs, found, move, elapsed) ==
    LET first == FestivalGoerUpdate(LogStart(w.goers[a]))
        acquired == IF first.target = Null
                    THEN TryAcquireTarget([w EXCEPT !.goers[a] = first], a, xs)
                    ELSE first
        seeking == IF acquired.target # Null /\ acquired.state = "IdleState"
                   THEN TransitionTo([acquired EXCEPT !.pathfindingTargetPos = acquired.target],
                                     "TargetSeekingState")
                   ELSE acquired
        moved == UpdateMove(seeking, found, move)
    IN  [w EXCEPT !.goers[a] = GoerUpdateState(w, moved, elapsed)]

\* Mutant of TentUpdate: intersectingPissArea is left set.
TentUpdate_KeepIntersecting(w, t, pissOpen, dryOpen, adj) ==
    LET hit == t \in w.intersecting
        pisses == hit /\ CanPissOn(w.tents[t]) /\ pissOpen
        pissed == IF pisses THEN PissThrottled(w, t, adj) ELSE w
    IN  IF /\ ~pisses /\ dryOpen
           /\ pissed.tents[t].pissiness > 0
           /\ pissed.tents[t].pissiness < MAX_PISSINESS
        THEN DryThrottled(pissed, t)
        ELSE pissed

\* Tent.update: pissOpen and dryOpen tell whether the cooldown of pissThrottled
\* and of dryThrottled has elapsed.  The callback of pissThrottled restarts the
\* cooldown of dryThrottled, so a tent does not dry in the update it is pissed on.
TentUpdate(w, t, pissOpen, dryOpen, adj) ==
    LET hit == t \in w.intersecting
        cleared == [w EXCEPT !.intersecting = @ \ {t}]
        pisses == hit /\ CanPissOn(w.tents[t]) /\ pissOpen
        pissed == IF pisses THEN PissThrottled(cleared, t, adj) ELSE cleared
    IN  IF /\ ~pisses /\ dryOpen
           /\ pissed.tents[t].pissiness > 0
           /\ pissed.tents[t].pissiness < MAX_PISSINESS
        THEN DryThrottled(pissed, t)
        ELSE pissed

\* Mutant of PlayerStateExit: FreePissingState.exit leaves the PissArea in the
\* world.
PlayerStateExit_KeepArea(w, adj) ==
    LET left == [w EXCEPT !.player = StateExit(@)]
    IN  IF w.player.state = "SmashingState"
        THEN SmashingStateExit(RemoveWorldObject(left, SmokeId), w.player.target, adj)
        ELSE left

\* exit() of the player's state: FreePissingState.exit, SmashingState.exit; the
\* other states have none.
PlayerStateExit(w, adj) ==
    LET left == [w EXCEPT !.player = StateExit(@)]
    IN  IF w.player.state = "FreePissingState"
        THEN RemoveWorldObject([left EXCEPT !.pissArea = NewPissArea], PissAreaId)
        ELSE IF w.player.state = "SmashingState"
        THEN SmashingStateExit(RemoveWorldObject(left, SmokeId), w.player.target, adj)
        ELSE left

\* enter() of the player's state: FreePissingState.enter, SmashingState.enter.
PlayerStateEnter(w) ==
    LET entered == [w EXCEPT !.player = StateEnter(@)]
    IN  IF w.player.state = "FreePissingState"
        THEN AddWorldObject([entered EXCEPT !.pissArea = NewPissArea], PissAreaId)
        ELSE IF w.player.state = "SmashingState"
        THEN AddWorldObject(entered, SmokeId)
        ELSE entered

\* FestivalGoer.transitionTo for the player; target is the tent a SmashingState is
\* made for.
PlayerTransitionTo(w, nextState, target, adj) ==
    PlayerStateEnter([PlayerStateExit(w, adj) EXCEPT
                         !.player = [StateSet(@, nextState) EXCEPT !.target = target]])

\* Player.doSmash
DoSmash(w, t, adj) ==
    IF w.player.energy > 0 /\ CanDamage(w.tents[t])
    THEN PlayerTransitionTo([w EXCEPT !.score = @ + SMASH_SCORE,
                                      !.player.energy = @ - 1],
                            "SmashingState", t, adj)
    ELSE w

\* Player.doPissFreely
DoPissFreely(w, adj) == PlayerTransitionTo(w, "FreePissingState", Null, adj)

\* Player.drinkTequila
DrinkTequila(w, adj) == PlayerTransitionTo(w, "BigPissState", Null, adj)

\* Player.updateState: the update of the player's state and the transition it
\* asks for.  BigPissState.update asks CharacterState.update, which returns
\* nothing, and returns nothing itself.
PlayerUpdateState(w, attack, pissLeft, elapsed, spot, adj) ==
    LET state == w.player.state
        called == [w EXCEPT !.player.updated = TRUE]
        returned(nextState) == [called EXCEPT !.player = StateUpdated(@, state, nextState)]
    IN  IF state = "FreePissingState"
        THEN IF ~attack \/ ~pissLeft
             THEN PlayerTransitionTo(returned("IdleState"), "IdleState", Null, adj)
             ELSE [returned("") EXCEPT !.pissArea = spot]
        ELSE IF state = "SmashingState"
        THEN LET timer == TrueAfterDelay(w.player.alreadyCalledOnce, elapsed)
             IN  IF timer.done
                 THEN PlayerTransitionTo(returned("IdleState"), "IdleState", Null, adj)
                 ELSE [returned("") EXCEPT
                          !.player.alreadyCalledOnce = timer.alreadyCalledOnce]
        ELSE returned("")

\* Player.update (MOUSE_CONTROL, no MOUSE_MOVEMENT): at is where the step of this
\* frame leads (there is none in SmashingState); smashable is the tent under the
\* cursor if it is within attack range, Null otherwise; pissLeft is piss > 0.
PlayerUpdate(w, at, attack, smashable, pissLeft, elapsed, spot, adj) ==
    LET started == [w EXCEPT !.player = LogStart(@)]
        moved == IF w.player.state # "SmashingState"
                 THEN [started EXCEPT !.player.at = at]
                 ELSE started
        attacked ==
            IF attack /\ moved.player.state = "IdleState"
            THEN IF smashable # Null /\ moved.player.energy > 0
                 THEN DoSmash(moved, smashable, adj)
                 ELSE DoPissFreely(moved, adj)
            ELSE moved
    IN  PlayerUpdateState(attacked, attack, pissLeft, elapsed, spot, adj)

\* A transitionTo whose PickedUpPowerupState.exit leaves the powerup disabled.
PowerupTransitionTo_StaysDisabled(powerup, nextState) ==
    LET next == [StateSet(StateExit(powerup), nextState) EXCEPT !.lastStart = 0]
    IN  [StateEnter(next) EXCEPT
            !.enabled = IF nextState = "PickedUpPowerupState" THEN FALSE ELSE @]

\* Powerup.transitionTo: PickedUpPowerupState disables the powerup on enter and
\* enables it on exit; a new PickedUpPowerupState has a new shouldRespawn.
PowerupTransitionTo(powerup, nextState) ==
    LET left == [StateExit(powerup) EXCEPT
                    !.enabled = IF powerup.state = "PickedUpPowerupState" THEN TRUE ELSE @]
        next == [StateSet(left, nextState) EXCEPT !.lastStart = 0]
    IN  [StateEnter(next) EXCEPT
            !.enabled = IF nextState = "PickedUpPowerupState" THEN FALSE ELSE @]

\* Powerup.update at time t (the bobbing apart) for a powerup whose respawnTime is
\* given: PickedUpPowerupState.update asks shouldRespawn().
PowerupUpdate(powerup, respawnTime, t) ==
    LET started == LogStart(powerup)
        first == IF ~powerup.initialStateEntered
                 THEN StateEnter([started EXCEPT !.initialStateEntered = TRUE])
                 ELSE started
        called == [first EXCEPT !.updated = TRUE]
    IN  IF powerup.state = "PickedUpPowerupState"
        THEN LET passes == ~powerup.alreadyCalledOnce \/ t > powerup.lastStart + respawnTime
                 timer == TrueAfterDelay(powerup.alreadyCalledOnce, passes)
             IN  IF timer.done
                 THEN PowerupTransitionTo(
                          StateUpdated(called, powerup.state, "AvailablePowerupState"),
                          "AvailablePowerupState")
                 ELSE StateUpdated([called EXCEPT
                                       !.alreadyCalledOnce = timer.alreadyCalledOnce,
                                       !.lastStart = IF passes THEN t ELSE @],
                                   powerup.state, "")
        ELSE StateUpdated(called, powerup.state, "")

\* Tequila.pickedUp
TequilaPickedUp(w, adj) ==
    LET drunk == DrinkTequila([w EXCEPT !.tequila =
                                 PowerupTransitionTo(LogStart(@), "PickedUpPowerupState"),
                                        !.player = LogStart(@)], adj)
    IN  [drunk EXCEPT !.tequila.enabled = FALSE]

\* Math.min
Min(a, b) == IF a < b THEN a ELSE b

\* Player.adjustPiss.  piss is kept in thousandths, where a level counts it.
AdjustPiss(p, adjustment) == [p EXCEPT !.piss = Min(@ + adjustment, MAX_PISS)]

\* Water.pickedUp
WaterPickedUp(w) ==
    [w EXCEPT !.powerups[WaterId] =
                 [PowerupTransitionTo(LogStart(@), "PickedUpPowerupState") EXCEPT
                     !.enabled = FALSE],
              !.player = AdjustPiss(@, WATER_VALUE)]

\* A CheeseSandwich whose pickedUp adds its value whatever the energy is.
CheeseSandwichPickedUp_NoCap(w) ==
    [w EXCEPT !.powerups[CheeseSandwichId] =
                 [PowerupTransitionTo(LogStart(@), "PickedUpPowerupState") EXCEPT
                     !.enabled = FALSE],
              !.player.energy = @ + CHEESE_SANDWICH_VALUE]

\* CheeseSandwich.pickedUp
CheeseSandwichPickedUp(w) ==
    [w EXCEPT !.powerups[CheeseSandwichId] =
                 [PowerupTransitionTo(LogStart(@), "PickedUpPowerupState") EXCEPT
                     !.enabled = FALSE],
              !.player.energy = Min(@ + CHEESE_SANDWICH_VALUE, MAX_ENERGY)]

\* GameObject.enabled: an actor that entered a tent and a picked-up powerup are
\* disabled.
Enabled(w, obj) ==
    IF IsGoerId(obj) THEN w.goers[obj].enabled
    ELSE IF obj = TequilaId THEN w.tequila.enabled
    ELSE IF obj \in DOMAIN w.powerups THEN w.powerups[obj].enabled
    ELSE TRUE

\* collision(a, b) for the pairs _handleCollision acts on (an actor and a tent,
\* an actor and the PissArea, a tent and the PissArea, the player and a powerup)
\* and for an actor and a powerup.
Collision(w, a, b) ==
    \/ a = PlayerId /\ b = TequilaId /\ w.player.at = TequilaId
    \/ a = TequilaId /\ b = PlayerId /\ w.player.at = TequilaId
    \/ a = PlayerId /\ b \in DOMAIN w.powerups /\ w.player.at = b
    \/ a \in DOMAIN w.powerups /\ b = PlayerId /\ w.player.at = a
    \/ IsGoerId(a) /\ b = TequilaId /\ w.goers[a].onPowerup
    \/ a = TequilaId /\ IsGoerId(b) /\ w.goers[b].onPowerup
    \/ IsGoerId(a) /\ IsTentId(b) /\ w.goers[a].at = b
    \/ IsTentId(a) /\ IsGoerId(b) /\ w.goers[b].at = a
    \/ IsGoerId(a) /\ b = PissAreaId /\ w.pissArea.goers /\ w.goers[a].at = w.pissArea.at
    \/ a = PissAreaId /\ IsGoerId(b) /\ w.pissArea.goers /\ w.goers[b].at = w.pissArea.at
    \/ IsTentId(a) /\ b = PissAreaId /\ w.pissArea.tent /\ w.pissArea.at = a
    \/ a = PissAreaId /\ IsTentId(b) /\ w.pissArea.tent /\ w.pissArea.at = b

\* Game._handleCollision
HandleCollision(w, object, otherObject, adj) ==
    IF ~Enabled(w, otherObject) THEN w
    ELSE IF IsGoerId(object)
    THEN IF otherObject = PissAreaId
         THEN [w EXCEPT !.goers[object] = RunFromPiss(LogStart(@))]
         ELSE IF IsTentId(otherObject) /\ w.goers[object].target = otherObject
         THEN AIEnterTent([w EXCEPT !.goers[object] = LogStart(@)], object,
                          otherObject, adj)
         ELSE w
    ELSE IF IsTentId(object) /\ otherObject = PissAreaId
    THEN [w EXCEPT !.intersecting = @ \cup {object}]
    ELSE IF object = PlayerId /\ otherObject = TequilaId
    THEN TequilaPickedUp(w, adj)
    ELSE IF object = PlayerId /\ otherObject = WaterId
    THEN WaterPickedUp(w)
    ELSE IF object = PlayerId /\ otherObject = CheeseSandwichId
    THEN CheeseSandwichPickedUp(w)
    ELSE w

RECURSIVE DetectInner(_, _, _, _), DetectOuter(_, _, _)

\* the loop over k of _detectCollisions: worldObjects[k] is read anew in each
\* round; reading past the end of the array would throw.
DetectInner(w, object, k, adj) ==
    IF k < 1 \/ w.threw THEN w
    ELSE IF k > Len(w.worldObjects) THEN [w EXCEPT !.threw = TRUE]
    ELSE LET otherObject == w.worldObjects[k]
         IN  DetectInner(IF /\ Enabled(w, otherObject)
                            /\ object # otherObject
                            /\ Collision(w, object, otherObject)
                         THEN HandleCollision(
                                  [w EXCEPT !.handled = @ \cup
                                      {[object |-> object,
                                        otherObject |-> otherObject,
                                        objectEnabled |-> Enabled(w, object),
                                        otherEnabled |-> Enabled(w, otherObject)]}],
                                  object, otherObject, adj)
                         ELSE w,
                         object, k - 1, adj)

\* the loop over i of _detectCollisions
DetectOuter(w, i, adj) ==
    IF i < 1 \/ w.threw THEN w
    ELSE IF i > Len(w.worldObjects) THEN [w EXCEPT !.threw = TRUE]
    ELSE LET object == w.worldObjects[i]
         IN  DetectOuter(IF Enabled(w, object)
                         THEN DetectInner(w, object, Len(w.worldObjects), adj)
                         ELSE w,
                         i - 1, adj)

\* Game._detectCollisions
DetectCollisionsPass(w, adj) ==
    DetectOuter([w EXCEPT !.handled = {}], Len(w.worldObjects), adj)

\* Game._spawnPeopleLoop(remaining) as called by _startSpawningPeople: up to three
\* people at once.  A level of at most three tents has all its people from the
\* first call.
RECURSIVE SpawnPeople(_, _)
SpawnPeople(list, n) ==
    IF n = 0 THEN list ELSE Append(SpawnPeople(list, n - 1), PlayerId + n)

\* worldObjects at the end of Game.startGame: the tents, the player, the people.
StartWorldObjects(n) == SpawnPeople([i \in 1..n |-> i] \o <<PlayerId>>, n)

\* The world at the end of Game.startGame.
WorldInit ==
    /\ NoPath
    /\ NoUnit
    /\ tentX \in Levels(WorldTents)
    /\ tents = [t \in 1..WorldTents |-> NewTent]
    /\ tentAdjacencies = InitTentAdjacencies(tentX)
    /\ tentGroups = [t \in 1..WorldTents |-> "none"]
    /\ scoreGain = 0
    /\ bonusAwarded = {}
    /\ recomputed = FALSE
    /\ worldObjects = StartWorldObjects(WorldTents)
    /\ worldObjectsByID = SeqToSet(worldObjects)
    /\ goers = [a \in GoerIds |-> NewGoer]
    /\ player = NewPlayer
    /\ pissArea = NewPissArea
    /\ tequila = NewTequila
    /\ now = 0
    /\ enteredAt = 0
    /\ intersecting = {}
    /\ frame = 1
    /\ updateIndex = 1
    /\ occupants = [t \in 1..WorldTents |-> <<>>]
    /\ removals = [a \in GoerIds |-> 0]
    /\ threw = FALSE
    /\ handled = {}
    /\ contended = {}
    /\ screen = "play"
    /\ updates = <<>>
    /\ powerups = <<>>

\* The game as a handler of SpecWorld sees it.
World ==
    [tents |-> tents, tentGroups |-> tentGroups, score |-> 0, bonus |-> {},
     recomputed |-> recomputed, worldObjects |-> worldObjects,
     worldObjectsByID |-> worldObjectsByID, goers |-> goers, player |-> player,
     pissArea |-> pissArea, intersecting |-> intersecting, tequila |-> tequila,
     powerups |-> powerups,
     occupants |-> occupants, removals |-> removals, threw |-> threw,
     handled |-> handled]

SetWorld(w) ==
    /\ SetGame(w)
    /\ worldObjects' = w.worldObjects
    /\ worldObjectsByID' = w.worldObjectsByID
    /\ goers' = w.goers
    /\ player' = w.player
    /\ pissArea' = w.pissArea
    /\ tequila' = w.tequila
    /\ powerups' = w.powerups
    /\ intersecting' = w.intersecting
    /\ occupants' = w.occupants
    /\ removals' = w.removals
    /\ threw' = w.threw
    /\ handled' = w.handled
    /\ UNCHANGED <<tentX, tentAdjacencies, pathVars, unitVars>>

\* The enabled actors of the world whose target is tent t and that overlap t.
Contenders(t) ==
    {a \in GoersOf(World) : goers[a].enabled /\ goers[a].target = t /\ goers[a].at = t}

\* The object the update loop of Game.update is at.
UpdatedObject == worldObjects[updateIndex]

\* worldObjects[i].update(this) for a Tent
UpdateTent ==
    /\ screen = "play"
    /\ frame <= MaxFrames
    /\ updateIndex <= Len(worldObjects)
    /\ IsTentId(UpdatedObject)
    /\ \E pissOpen, dryOpen \in BOOLEAN :
          \* the cooldown of dryThrottled is the longer one and starts no earlier
          /\ dryOpen => pissOpen
          /\ SetWorld(TentUpdate(World, UpdatedObject, pissOpen, dryOpen, tentAdjacencies))
    /\ updateIndex' = updateIndex + 1
    /\ updates' = Append(updates, UpdatedObject)
    /\ UNCHANGED <<frame, contended, now, enteredAt, screen>>

\* worldObjects[i].update(this) for the Player.  An input is drawn only where
\* the update reads it: the timer of SmashingState, the keys and the cursor in
\* the other states.
UpdatePlayer ==
    /\ screen = "play"
    /\ frame <= MaxFrames
    /\ updateIndex <= Len(worldObjects)
    /\ UpdatedObject = PlayerId
    /\ \E attack \in (IF player.state = "SmashingState" THEN {FALSE} ELSE BOOLEAN),
          smashable \in (IF player.state = "IdleState"
                         THEN {Null} \cup TentsOf(World) ELSE {Null}),
          pissLeft \in (IF player.state = "SmashingState" THEN {TRUE} ELSE BOOLEAN),
          elapsed \in (IF player.state = "SmashingState" THEN BOOLEAN ELSE {FALSE}),
          spot \in (IF player.state = "SmashingState" THEN {NewPissArea} ELSE PissSpots),
          at \in {Null} \cup (worldObjectsByID \cap {TequilaId}) :
          SetWorld(PlayerUpdate(World, at, attack, smashable, pissLeft, elapsed, spot,
                                tentAdjacencies))
    /\ updateIndex' = updateIndex + 1
    /\ updates' = Append(updates, UpdatedObject)
    /\ UNCHANGED <<frame, contended, now, enteredAt, screen>>

\* worldObjects[i].update(this) for an AIFestivalGoer.  An input is drawn only
\* where the update reads it: the outcome of a search when one is made, the timer
\* when fleeing, the step when the actor moves (away from the player when
\* fleeing, along its path when seeking).
UpdateGoer ==
    /\ screen = "play"
    /\ frame <= MaxFrames
    /\ updateIndex <= Len(worldObjects)
    /\ IsGoerId(UpdatedObject)
    /\ LET goer == goers[UpdatedObject]
           fleeing == goer.state = "FleeingState"
       IN  \E found \in (IF ~fleeing /\ goer.path = "null" /\ ~goer.isPathfinding
                          THEN BOOLEAN ELSE {FALSE}),
              elapsed \in (IF fleeing THEN BOOLEAN ELSE {FALSE}),
              move \in (IF fleeing THEN {"stay", "open"}
                        ELSE IF goer.path # "null"
                        THEN {"stay", "arrive"}
                             \cup (IF /\ TequilaId \in worldObjectsByID
                                      /\ tequila.at = goer.pathfindingTargetPos
                                   THEN {"beside"} ELSE {})
                        ELSE {"stay"}) :
              SetWorld(AIUpdate(World, UpdatedObject, tentX, found, move, elapsed))
    /\ updateIndex' = updateIndex + 1
    /\ updates' = Append(updates, UpdatedObject)
    /\ UNCHANGED <<frame, contended, now, enteredAt, screen>>

\* worldObjects[i].update(this) for the PissArea and the Smoke, which change
\* nothing the model keeps.
UpdateEffect ==
    /\ screen = "play"
    /\ frame <= MaxFrames
    /\ updateIndex <= Len(worldObjects)
    /\ UpdatedObject \in {PissAreaId, SmokeId}
    /\ SetWorld(World)
    /\ updateIndex' = updateIndex + 1
    /\ updates' = Append(updates, UpdatedObject)
    /\ UNCHANGED <<frame, contended, now, enteredAt, screen>>

\* this._detectCollisions() at the end of the frame; the next animation frame
\* starts with game.frame++.
DetectCollisions ==
    /\ screen = "play"
    /\ frame <= MaxFrames
    /\ updateIndex > Len(worldObjects)
    /\ SetWorld(DetectCollisionsPass(World, tentAdjacencies))
    /\ updateIndex' = 1
    /\ frame' = frame + 1
    /\ contended' = {t \in TentsOf(World) :
                        IsUsable(tents[t]) /\ Cardinality(Contenders(t)) >= 2}
    /\ updates' = <<>>
    /\ UNCHANGED <<now, enteredAt, screen>>

WorldNext ==
    \/ UpdateTent
    \/ UpdatePlayer
    \/ UpdateGoer
    \/ UpdateEffect
    \/ DetectCollisions

SpecWorld == WorldInit /\ [][WorldNext]_vars

-----------------------------------------------------------------------------
(* SpecLife: the frame loop of a level with one tent and the Tequila, the   *)
(* player and the one person the bus brings for the tent.  The clock is     *)
(* read by the Tequila alone; it has moved on by nothing, or by more than   *)
(* the respawn time, when the Tequila is updated.                           *)

LifeGoers == {PlayerId + 1}

\* The world at the end of Game.startGame for a level whose objects are listed
\* in the order given.
LevelInit(objects, powerup) ==
    /\ NoPath
    /\ NoUnit
    /\ tentX \in Levels(1)
    /\ tents = [t \in 1..1 |-> NewTent]
    /\ tentAdjacencies = InitTentAdjacencies(tentX)
    /\ tentGroups = [t \in 1..1 |-> "none"]
    /\ scoreGain = 0
    /\ bonusAwarded = {}
    /\ recomputed = FALSE
    /\ worldObjects = SpawnPeople(objects \o <<PlayerId>>, 1)
    /\ worldObjectsByID = SeqToSet(worldObjects)
    /\ goers = [a \in LifeGoers |-> NewGoer]
    /\ player = NewPlayer
    /\ pissArea = NewPissArea
    /\ tequila = powerup
    /\ now = 0
    /\ enteredAt = 0
    /\ intersecting = {}
    /\ frame = 1
    /\ updateIndex = 1
    /\ occupants = [t \in 1..1 |-> <<>>]
    /\ removals = [a \in LifeGoers |-> 0]
    /\ threw = FALSE
    /\ handled = {}
    /\ contended = {}
    /\ screen = "play"
    /\ updates = <<>>
    /\ powerups = <<>>

\* The levels of SpecLife: the tent is listed before the Tequila, which stands
\* apart from it.
LifeInit == LevelInit(<<1, TequilaId>>, NewTequila)

\* worldObjects[i].update(this) for the Tequila
UpdatePowerup ==
    /\ screen = "play"
    /\ frame <= MaxFrames
    /\ updateIndex <= Len(worldObjects)
    /\ UpdatedObject = TequilaId
    /\ \E t \in {now, now + TEQUILA_RESPAWN_TIME + 1} :
          /\ SetWorld([World EXCEPT !.tequila = PowerupUpdate(@, TEQUILA_RESPAWN_TIME, t)])
          /\ now' = t
    /\ updateIndex' = updateIndex + 1
    /\ updates' = Append(updates, UpdatedObject)
    /\ UNCHANGED <<frame, contended, enteredAt, screen>>

LifeNext ==
    \/ UpdateTent
    \/ UpdatePowerup
    \/ UpdatePlayer
    \/ UpdateGoer
    \/ UpdateEffect
    \/ DetectCollisions

SpecLife == LifeInit /\ [][LifeNext]_vars

-----------------------------------------------------------------------------
(* SpecEditor: the frame loop of SpecLife with the level editor open.  The  *)
(* game goes on being updated in the editor's modes; a click of the         *)
(* 'delete' tool comes between two animation frames.  The clicks taken are  *)
(* those on a tent while no SmashingState holds a tent.                     *)

\* Editor._spawnObjectDebounced, case 'delete': the object under the cursor is
\* removed from the world and nothing else is done.
EditorDelete ==
    /\ frame <= MaxFrames
    /\ updateIndex = 1
    /\ player.state # "SmashingState"
    /\ \E obj \in TentsOf(World) : SetWorld(RemoveWorldObject(World, obj))
    /\ UNCHANGED <<frame, updateIndex, contended, now, enteredAt, screen, updates>>

EditorNext ==
    \/ LifeNext
    \/ EditorDelete

SpecEditor == LifeInit /\ [][EditorNext]_vars

-----------------------------------------------------------------------------
(* SpecNear: the frame loop of SpecLife in a level that lists the Tequila   *)
(* before the tent and has it stand by the tent.                            *)

NearInit == LevelInit(<<TequilaId, 1>>, [NewTequila EXCEPT !.at = 1])

SpecNear == NearInit /\ [][LifeNext]_vars

-----------------------------------------------------------------------------
(* SpecScreen: the game from its construction.  Game.update runs the title  *)
(* screen until the attack key is down in one of its frames; that frame     *)
(* starts the game, in the level of SpecLife, and the frames that follow    *)
(* are those of SpecLife.                                                   *)

\* The Game as constructed: the title screen is up, the player exists, the world
\* is empty.
ScreenInit ==
    /\ NoPath
    /\ NoUnit
    /\ NoTents
    /\ worldObjects = <<>> /\ worldObjectsByID = {} /\ goers = <<>>
    /\ player = NewPlayer
    /\ pissArea = NewPissArea /\ intersecting = {} /\ frame = 1 /\ updateIndex = 1
    /\ tequila = NewTequila /\ now = 0 /\ enteredAt = 0
    /\ occupants = <<>> /\ removals = <<>> /\ threw = FALSE /\ handled = {}
    /\ contended = {} /\ screen = "title" /\ updates = <<>> /\ powerups = <<>>

\* Game.startGame for the level of SpecLife: _spawnObjects, the player,
\* initTentAdjacencies, and the people of the first _spawnPeopleLoop.
StartGame ==
    /\ tentX' \in Levels(1)
    /\ tents' = [t \in 1..1 |-> NewTent]
    /\ tentAdjacencies' = InitTentAdjacencies(tentX')
    /\ tentGroups' = [t \in 1..1 |-> "none"]
    /\ worldObjects' = SpawnPeople(<<1, TequilaId>> \o <<PlayerId>>, 1)
    /\ worldObjectsByID' = SeqToSet(worldObjects')
    /\ goers' = [a \in LifeGoers |-> NewGoer]
    /\ occupants' = [t \in 1..1 |-> <<>>]
    /\ removals' = [a \in LifeGoers |-> 0]

\* Game.update, case 'title': TitleScreen.update, whose gotoPlayScreen sets the
\* screen and starts the game when the attack key is down.  No object of the
\* world is updated and _detectCollisions is not called.
TitleUpdate ==
    /\ screen = "title"
    /\ frame <= MaxFrames
    /\ \E attack \in BOOLEAN :
          IF attack
          THEN /\ screen' = "play"
               /\ StartGame
          ELSE UNCHANGED <<screen, tentX, tents, tentAdjacencies, tentGroups,
                           worldObjects, worldObjectsByID, goers, occupants, removals>>
    /\ frame' = frame + 1
    /\ UNCHANGED <<scoreGain, bonusAwarded, recomputed, player, pissArea, tequila, now,
                   enteredAt, intersecting, updateIndex, threw, handled, contended,
                   updates, powerups, pathVars, unitVars>>

ScreenNext ==
    \/ TitleUpdate
    \/ LifeNext

SpecScreen == ScreenInit /\ [][ScreenNext]_vars

-----------------------------------------------------------------------------
(* SpecTimer: the player's attack states against the clock, one animation    *)
(* frame per step.  The level holds one tent and the Tequila; the people    *)
(* are left out (they write no field of the player, and the player's update *)
(* reads none of theirs), and the effect area is kept off the tent.         *)

\* The time between two animation frames, in ms.
FrameTimes == {100, 500}
MaxFrameTime == 500
MaxElapsed == 3500     \* the clock of SpecTimer stops here

\* TimedAttackState makes isDone from its own duration, 1000, before a subclass
\* sets another one.
TIMED_ATTACK_DURATION == 1000
\* duration of SmashingState, set after isDone was made
SMASHING_DURATION == 300
BIG_PISS_DURATION == 2000

TimerInit ==
    /\ NoPath
    /\ NoUnit
    /\ tentX \in Levels(1)
    /\ tents = [t \in 1..1 |-> NewTent]
    /\ tentAdjacencies = InitTentAdjacencies(tentX)
    /\ tentGroups = [t \in 1..1 |-> "none"]
    /\ scoreGain = 0
    /\ bonusAwarded = {}
    /\ recomputed = FALSE
    /\ worldObjects = <<1, TequilaId, PlayerId>>
    /\ worldObjectsByID = SeqToSet(worldObjects)
    /\ goers = [a \in {} |-> NewGoer]
    /\ player = NewPlayer
    /\ pissArea = NewPissArea
    /\ tequila = NewTequila
    /\ now = 0
    /\ enteredAt = 0
    /\ intersecting = {}
    /\ frame = 0
    /\ updateIndex = 1
    /\ occupants = [t \in 1..1 |-> <<>>]
    /\ removals = [a \in {} |-> 0]
    /\ threw = FALSE
    /\ handled = {}
    /\ contended = {}
    /\ screen = "play"
    /\ updates = <<>>
    /\ powerups = <<>>

\* One animation frame at time t: game.frame++, the updates of the tent, the
\* Tequila and the player (the order of worldObjects; the Smoke and the PissArea
\* that follow have no update of their own), then the collision pass.  The timer
\* of a SmashingState is first asked in the update that enters the state, so its
\* lastStart is enteredAt.
TimedFrame ==
    \E dt \in FrameTimes, at \in {Null, TequilaId}, attack, pissLeft \in BOOLEAN,
       smashable \in {Null} \cup TentsOf(World) :
        /\ screen = "play"
        /\ now + dt <= MaxElapsed
        /\ LET t == now + dt
               tentDone == TentUpdate(World, 1, FALSE, FALSE, tentAdjacencies)
               tequilaDone == [tentDone EXCEPT
                                 !.tequila = PowerupUpdate(@, TEQUILA_RESPAWN_TIME, t)]
               playerDone == PlayerUpdate(tequilaDone, at, attack, smashable, pissLeft,
                                          t > enteredAt + TIMED_ATTACK_DURATION,
                                          NewPissArea, tentAdjacencies)
               w == DetectCollisionsPass(playerDone, tentAdjacencies)
           IN  /\ SetWorld(w)
               /\ now' = t
               /\ enteredAt' = IF w.player.state # player.state THEN t ELSE enteredAt
        /\ frame' = frame + 1
        /\ UNCHANGED <<updateIndex, contended, screen, updates>>

TimerNext == TimedFrame

SpecTimer == TimerInit /\ [][TimerNext]_vars

-----------------------------------------------------------------------------
(* SpecFlee: one autonomous actor against the clock, one animation frame    *)
(* per step.  The level holds one tent; the player never smashes and keeps  *)
(* the effect area off the tent, so that the tent stays as it is until the  *)
(* actor enters it.  enteredAt is the time of the first call of the timer   *)
(* of the actor's FleeingState, the call that starts the delay.             *)

FLEE_TIME == 5000
FleeFrameTimes == {1500, 4000}
MaxFleeElapsed == 12000     \* the clock of SpecFlee stops here

Fleer == PlayerId + 1

FleeInit ==
    /\ NoPath
    /\ NoUnit
    /\ tentX \in Levels(1)
    /\ tents = [t \in 1..1 |-> NewTent]
    /\ tentAdjacencies = InitTentAdjacencies(tentX)
    /\ tentGroups = [t \in 1..1 |-> "none"]
    /\ scoreGain = 0
    /\ bonusAwarded = {}
    /\ recomputed = FALSE
    /\ worldObjects = SpawnPeople(<<1, PlayerId>>, 1)
    /\ worldObjectsByID = SeqToSet(worldObjects)
    /\ goers = [a \in {Fleer} |-> NewGoer]
    /\ player = NewPlayer
    /\ pissArea = NewPissArea
    /\ tequila = NewTequila
    /\ now = 0
    /\ enteredAt = 0
    /\ intersecting = {}
    /\ frame = 0
    /\ updateIndex = 1
    /\ occupants = [t \in 1..1 |-> <<>>]
    /\ removals = [a \in {Fleer} |-> 0]
    /\ threw = FALSE
    /\ handled = {}
    /\ contended = {}
    /\ screen = "play"
    /\ updates = <<>>
    /\ powerups = <<>>

\* One animation frame at time t: game.frame++, the updates of the tent, the
\* player and the actor (the order of worldObjects), then the collision pass.
FleeFrame ==
    \E dt \in FleeFrameTimes, attack, pissLeft, found \in BOOLEAN,
       spot \in {area \in PissSpots : area.at <= 1 /\ ~area.tent},
       move \in {"stay", "open", "arrive"} :
        /\ screen = "play"
        /\ now + dt <= MaxFleeElapsed
        /\ LET t == now + dt
               goer == goers[Fleer]
               tentDone == TentUpdate(World, 1, FALSE, FALSE, tentAdjacencies)
               playerDone == PlayerUpdate(tentDone, Null, attack, Null, pissLeft,
                                          FALSE, spot, tentAdjacencies)
               goerDone == IF Fleer \in worldObjectsByID
                           THEN AIUpdate(playerDone, Fleer, tentX, found, move,
                                         t > enteredAt + FLEE_TIME)
                           ELSE playerDone
           IN  /\ move = "open" => goer.state = "FleeingState"
               /\ move = "arrive" => goer.state # "FleeingState" /\ goer.path # "null"
               /\ found => /\ goer.state # "FleeingState"
                            /\ goer.path = "null" /\ ~goer.isPathfinding
               /\ SetWorld(DetectCollisionsPass(goerDone, tentAdjacencies))
               /\ now' = t
               /\ enteredAt' = IF /\ Fleer \in worldObjectsByID
                                  /\ goer.state = "FleeingState"
                                  /\ ~goer.alreadyCalledOnce
                               THEN t ELSE enteredAt
        /\ frame' = frame + 1
        /\ UNCHANGED <<updateIndex, contended, screen, updates>>

FleeNext == FleeFrame

SpecFlee == FleeInit /\ [][FleeNext]_vars

-----------------------------------------------------------------------------
(* SpecRespawn: the Tequila against the clock, one animation frame per      *)
(* step, in the level of SpecTimer.  The player walks onto the Tequila or   *)
(* stays off it and does not attack.  enteredAt is the time of the frame    *)
(* whose collision pass picked the Tequila up.                              *)

\* The time between two animation frames, in ms: a short frame, and two long
\* ones that end just before and exactly one respawn time later.
RespawnFrameTimes == {20, TEQUILA_RESPAWN_TIME - 10, TEQUILA_RESPAWN_TIME}
MaxRespawnFrames == 6     \* the frames of SpecRespawn stop here

\* The pair (player, Tequila) was handled in the last collision pass.
PickedUpInPass(calls) ==
    \E call \in calls : call.object = PlayerId /\ call.otherObject = TequilaId

\* One animation frame at time t: game.frame++, the updates of the tent, the
\* Tequila and the player (the order of worldObjects), then the collision pass.
RespawnFrame ==
    \E dt \in RespawnFrameTimes, at \in {Null, TequilaId} :
        /\ screen = "play"
        /\ frame < MaxRespawnFrames
        /\ LET t == now + dt
               tentDone == TentUpdate(World, 1, FALSE, FALSE, tentAdjacencies)
               tequilaDone == [tentDone EXCEPT
                                 !.tequila = PowerupUpdate(@, TEQUILA_RESPAWN_TIME, t)]
               playerDone == PlayerUpdate(tequilaDone, at, FALSE, Null, FALSE,
                                          FALSE, NewPissArea, tentAdjacencies)
               w == DetectCollisionsPass(playerDone, tentAdjacencies)
           IN  /\ SetWorld(w)
               /\ now' = t
               /\ enteredAt' = IF PickedUpInPass(w.handled) THEN t ELSE enteredAt
        /\ frame' = frame + 1
        /\ UNCHANGED <<updateIndex, contended, screen, updates>>

RespawnNext == RespawnFrame

SpecRespawn == TimerInit /\ [][RespawnNext]_vars

-----------------------------------------------------------------------------
(* SpecPiss: the player's piss against the clock, one animation frame per   *)
(* step.  The level holds one tent, the Tequila and a Water; the people are *)
(* left out, the player never smashes and keeps the effect area off the     *)
(* tent.  Player.piss is counted in thousandths; pissLastStart is lastStart *)
(* of pissThrottled of the player's FreePissingState, and attack is         *)
(* game.keys.attack as the last Player.update read it.                      *)

\* Date.now() when the game is started: later than any cooldown is long.
GameStart == 100000
PissFrameTimes == {600}
MaxPissFrames == 12     \* the frames of SpecPiss stop here

NewWater == NewTequila

PissInit ==
    /\ NoPath
    /\ NoUnit
    /\ tentX \in Levels(1)
    /\ tents = [t \in 1..1 |-> NewTent]
    /\ tentAdjacencies = InitTentAdjacencies(tentX)
    /\ tentGroups = [t \in 1..1 |-> "none"]
    /\ scoreGain = 0
    /\ bonusAwarded = {}
    /\ recomputed = FALSE
    /\ worldObjects = <<1, TequilaId, WaterId, PlayerId>>
    /\ worldObjectsByID = SeqToSet(worldObjects)
    /\ goers = [a \in {} |-> NewGoer]
    /\ player = [piss |-> PLAYER_PISS, pissLastStart |-> 0, attack |-> FALSE] @@ NewPlayer
    /\ pissArea = NewPissArea
    /\ tequila = NewTequila
    /\ powerups = (WaterId :> NewWater)
    /\ now = GameStart
    /\ enteredAt = 0
    /\ intersecting = {}
    /\ frame = 0
    /\ updateIndex = 1
    /\ occupants = [t \in 1..1 |-> <<>>]
    /\ removals = [a \in {} |-> 0]
    /\ threw = FALSE
    /\ handled = {}
    /\ contended = {}
    /\ screen = "play"
    /\ updates = <<>>

\* FreePissingState.pissThrottled at time t: lastStart is that of the state
\* object, 0 in a new one.
FreePissThrottled(p, lastStart, t) ==
    IF t > lastStart + FREE_PISS_TIME
    THEN [p EXCEPT !.pissLastStart = t, !.piss = @ - PISS_UNIT]
    ELSE [p EXCEPT !.pissLastStart = lastStart]

\* Player.update at time t with the piss counted: adjustPiss(0.005), then the
\* update as PlayerUpdate has it, FreePissingState.update reading piss <= 0 and
\* calling pissThrottled when it does not return.
PlayerUpdatePiss(w, t, at, attack, spot, adj) ==
    LET regenerated == [w EXCEPT !.player = [AdjustPiss(@, PISS_REGENERATION) EXCEPT
                                                !.attack = attack]]
        updated == PlayerUpdate(regenerated, at, attack, Null,
                                regenerated.player.piss > 0, FALSE, spot, adj)
        log == updated.player.log
        stays == log[Len(log)] = Event("update", "FreePissingState", "", 0)
        isNew == \E i \in DOMAIN log :
                    log[i].op = "set" /\ log[i].state = "FreePissingState"
    IN  IF stays
        THEN [updated EXCEPT !.player =
                 FreePissThrottled(@, IF isNew THEN 0 ELSE w.player.pissLastStart, t)]
        ELSE updated

\* One animation frame at time t: game.frame++, the updates of the tent, the
\* Tequila, the Water and the player (the order of worldObjects), then the
\* collision pass.
PissFrame ==
    \E dt \in PissFrameTimes, at \in {Null, TequilaId, WaterId}, attack \in BOOLEAN :
        /\ screen = "play"
        /\ frame < MaxPissFrames
        /\ LET t == now + dt
               tentDone == TentUpdate(World, 1, FALSE, FALSE, tentAdjacencies)
               tequilaDone == [tentDone EXCEPT
                                 !.tequila = PowerupUpdate(@, TEQUILA_RESPAWN_TIME, t)]
               waterDone == [tequilaDone EXCEPT
                               !.powerups[WaterId] =
                                   PowerupUpdate(@, POWERUP_RESPAWN_TIME, t)]
               playerDone == PlayerUpdatePiss(waterDone, t, at, attack, NewPissArea,
                                              tentAdjacencies)
           IN  /\ SetWorld(DetectCollisionsPass(playerDone, tentAdjacencies))
               /\ now' = t
        /\ frame' = frame + 1
        /\ UNCHANGED <<updateIndex, contended, screen, updates, enteredAt>>

PissNext == PissFrame

SpecPiss == PissInit /\ [][PissNext]_vars

-----------------------------------------------------------------------------
(* SpecTent: the tents against the clock, one animation frame per step.     *)
(* The level holds the tents and the player; the people are left out, so no *)
(* tent is occupied.  The tents carry lastStart of their pissThrottled      *)
(* (pissLastStart) and of their dryThrottled (dryLastStart).                *)

TENT_PISS_TIME == 300
DRYING_TIME == 3000

TimedTents == 1        \* tents of the level of SpecTent
TentFrameTimes == {200, DRYING_TIME + 100}
MaxTentFrames == 7     \* the frames of SpecTent stop here

NewTimedTent == [pissLastStart |-> 0, dryLastStart |-> 0] @@ NewTent

TentInit ==
    /\ NoPath
    /\ NoUnit
    /\ tentX \in Levels(TimedTents)
    /\ tents = [t \in 1..TimedTents |-> NewTimedTent]
    /\ tentAdjacencies = InitTentAdjacencies(tentX)
    /\ tentGroups = [t \in 1..TimedTents |-> "none"]
    /\ scoreGain = 0
    /\ bonusAwarded = {}
    /\ recomputed = FALSE
    /\ worldObjects = [i \in 1..TimedTents |-> i] \o <<PlayerId>>
    /\ worldObjectsByID = SeqToSet(worldObjects)
    /\ goers = [a \in {} |-> NewGoer]
    /\ player = NewPlayer
    /\ pissArea = NewPissArea
    /\ tequila = NewTequila
    /\ powerups = <<>>
    /\ now = GameStart
    /\ enteredAt = 0
    /\ intersecting = {}
    /\ frame = 0
    /\ updateIndex = 1
    /\ occupants = [t \in 1..TimedTents |-> <<>>]
    /\ removals = [a \in {} |-> 0]
    /\ threw = FALSE
    /\ handled = {}
    /\ contended = {}
    /\ screen = "play"
    /\ updates = <<>>

\* Mutant of TentUpdateAt: pissThrottled lets every call through.
TentUpdateAt_NoCooldown(w, tent, t, adj) ==
    LET old == w.tents[tent]
        dryOpen == t > old.dryLastStart + DRYING_TIME
        pisses == tent \in w.intersecting /\ CanPissOn(old)
        dries == /\ ~pisses /\ dryOpen
                 /\ old.pissiness > 0 /\ old.pissiness < MAX_PISSINESS
    IN  [TentUpdate(w, tent, TRUE, dryOpen, adj) EXCEPT
            !.tents[tent].pissLastStart = IF pisses THEN t ELSE @,
            !.tents[tent].dryLastStart = IF pisses \/ dries THEN t ELSE @]

\* Tent.update at time t: pissThrottled and dryThrottled let a call through when
\* t > lastStart + cooldownTime and then set lastStart = t; the callback of
\* pissThrottled sets lastStart of dryThrottled (setThrottledNow).
TentUpdateAt(w, tent, t, adj) ==
    LET old == w.tents[tent]
        pissOpen == t > old.pissLastStart + TENT_PISS_TIME
        dryOpen == t > old.dryLastStart + DRYING_TIME
        pisses == tent \in w.intersecting /\ CanPissOn(old) /\ pissOpen
        dries == /\ ~pisses /\ dryOpen
                 /\ old.pissiness > 0 /\ old.pissiness < MAX_PISSINESS
    IN  [TentUpdate(w, tent, pissOpen, dryOpen, adj) EXCEPT
            !.tents[tent].pissLastStart = IF pisses THEN t ELSE @,
            !.tents[tent].dryLastStart = IF pisses \/ dries THEN t ELSE @]

RECURSIVE TentsUpdateAt(_, _, _, _)
\* The updates of the tents 1..n, in the order of worldObjects.
TentsUpdateAt(w, n, t, adj) ==
    IF n = 0 THEN w ELSE TentUpdateAt(TentsUpdateAt(w, n - 1, t, adj), n, t, adj)

\* One animation frame at time t: game.frame++, the updates of the tents and of
\* the player (the PissArea and the Smoke that follow have no update of their
\* own), then the collision pass.
TentFrame ==
    \E dt \in TentFrameTimes, attack \in BOOLEAN, smashable \in {Null} \cup TentsOf(World),
       spot \in {area \in PissSpots : ~area.goers /\ area.at <= TimedTents} :
        /\ screen = "play"
        /\ frame < MaxTentFrames
        /\ LET t == now + dt
               tentsDone == TentsUpdateAt(World, TimedTents, t, tentAdjacencies)
               playerDone == PlayerUpdate(tentsDone, Null, attack, smashable, TRUE,
                                          t > enteredAt + TIMED_ATTACK_DURATION,
                                          spot, tentAdjacencies)
               w == DetectCollisionsPass(playerDone, tentAdjacencies)
           IN  /\ SetWorld(w)
               /\ now' = t
               /\ enteredAt' = IF w.player.state # player.state THEN t ELSE enteredAt
        /\ frame' = frame + 1
        /\ UNCHANGED <<updateIndex, contended, screen, updates>>

TentNext == TentFrame

SpecTent == TentInit /\ [][TentNext]_vars

-----------------------------------------------------------------------------
(* SpecEnergy: the player's energy against the tents, one animation frame   *)
(* per step.  The level holds the tents, a CheeseSandwich and the player;   *)
(* the tents carry the lastStart of their throttles as in SpecTent.         *)

EnergyTents == 3        \* tents of the level of SpecEnergy
EnergyFrameTimes == {POWERUP_RESPAWN_TIME + 100}
MaxEnergyFrames == 7    \* the frames of SpecEnergy stop here

NewCheeseSandwich == NewTequila

EnergyInit ==
    /\ NoPath
    /\ NoUnit
    /\ tentX \in {level \in Levels(EnergyTents) : level[2] = 50}    \* one row of neighbours
    /\ tents = [t \in 1..EnergyTents |-> NewTimedTent]
    /\ tentAdjacencies = InitTentAdjacencies(tentX)
    /\ tentGroups = [t \in 1..EnergyTents |-> "none"]
    /\ scoreGain = 0
    /\ bonusAwarded = {}
    /\ recomputed = FALSE
    /\ worldObjects = [i \in 1..EnergyTents |-> i] \o <<CheeseSandwichId, PlayerId>>
    /\ worldObjectsByID = SeqToSet(worldObjects)
    /\ goers = [a \in {} |-> NewGoer]
    /\ player = NewPlayer
    /\ pissArea = NewPissArea
    /\ tequila = NewTequila
    /\ powerups = (CheeseSandwichId :> NewCheeseSandwich)
    /\ now = GameStart
    /\ enteredAt = 0
    /\ intersecting = {}
    /\ frame = 0
    /\ updateIndex = 1
    /\ occupants = [t \in 1..EnergyTents |-> <<>>]
    /\ removals = [a \in {} |-> 0]
    /\ threw = FALSE
    /\ handled = {}
    /\ contended = {}
    /\ screen = "play"
    /\ updates = <<>>

\* One animation frame at time t: game.frame++, the updates of the tents, the
\* CheeseSandwich and the player (the order of worldObjects), then the
\* collision pass.
EnergyFrame ==
    \E dt \in EnergyFrameTimes, at \in {Null, CheeseSandwichId}, attack \in BOOLEAN,
       smashable \in {Null} \cup TentsOf(World),
       spot \in {area \in PissSpots : ~area.goers /\ area.at <= 1} :
        /\ screen = "play"
        /\ frame < MaxEnergyFrames
        /\ LET t == now + dt
               tentsDone == TentsUpdateAt(World, EnergyTents, t, tentAdjacencies)
               sandwichDone == [tentsDone EXCEPT
                                  !.powerups[CheeseSandwichId] =
                                      PowerupUpdate(@, POWERUP_RESPAWN_TIME, t)]
               playerDone == PlayerUpdate(sandwichDone, at, attack, smashable, TRUE,
                                          t > enteredAt + TIMED_ATTACK_DURATION,
                                          spot, tentAdjacencies)
               w == DetectCollisionsPass(playerDone, tentAdjacencies)
           IN  /\ SetWorld(w)
               /\ now' = t
               /\ enteredAt' = IF w.player.state # player.state THEN t ELSE enteredAt
        /\ frame' = frame + 1
        /\ UNCHANGED <<updateIndex, contended, screen, updates>>

EnergyNext == EnergyFrame

SpecEnergy == EnergyInit /\ [][EnergyNext]_vars

-----------------------------------------------------------------------------
(* SpecSpawn: Game.spawnObjectOfType, as the level loader and the 'add'     *)
(* tool of the editor call it with a type name, and removeWorldObject, as   *)
(* the 'delete' tool calls it.  The objects are kept by id; the Player made *)
(* with the Game took the first id.                                         *)

\* The own properties of Game.SPAWNABLE_OBJECT_CLASSES.
SPAWNABLE_OBJECT_CLASSES == {"Tent", "Bus", "CheeseSandwich", "Water", "Tequila"}

\* The type names asked for: the spawnable classes, classes that are not
\* spawnable, a name that is no class, and names of properties that the object
\* literal inherits from Object.prototype.
SpawnTypes ==
    SPAWNABLE_OBJECT_CLASSES \cup {"Smoke", "Player", "", "constructor", "toString"}

\* obj.id of an object that is no GameObject: undefined.
Undefined == -2

MaxId == 4          \* no GameObject is made beyond this id
MaxObjects == 3     \* worldObjects is not filled beyond this length

\* Game.SPAWNABLE_OBJECT_CLASSES[type]: a property lookup on an object literal,
\* which finds the own properties and those of Object.prototype.
ObjectClassOf(type) ==
    IF type \in SPAWNABLE_OBJECT_CLASSES THEN type
    ELSE IF type = "constructor" THEN "Object"
    ELSE IF type = "toString" THEN "Object.prototype.toString"
    ELSE "undefined"

SpawnInit ==
    /\ NoTents
    /\ NoPath
    /\ worldObjects = <<>> /\ worldObjectsByID = {} /\ goers = <<>> /\ player = <<>>
    /\ pissArea = <<>> /\ intersecting = {} /\ frame = 0 /\ updateIndex = 1
    /\ tequila = <<>> /\ now = 0 /\ enteredAt = 0
    /\ occupants = <<>> /\ removals = <<>> /\ threw = FALSE /\ handled = {}
    /\ contended = {} /\ screen = "title" /\ updates = <<>> /\ powerups = <<>>
    /\ maxId = 1
    /\ objectClasses = (0 :> "Player")
    /\ spawnCall = ""
    /\ gridCall = NoGridCall
    /\ collisionCall = NoCollisionCall

\* Game.spawnObjectOfType({type, pos}) with Game._spawnGeneric.  new
\* ObjectClass(pos) makes a GameObject with id = GameObject.maxId++ for a class
\* of the game, returns pos itself for Object, and throws a TypeError for a
\* function that is no constructor.  threw tells whether this call threw.
SpawnObjectOfType ==
    \E type \in SpawnTypes :
        /\ maxId < MaxId
        /\ Len(worldObjects) < MaxObjects
        /\ spawnCall' = type
        /\ LET ObjectClass == ObjectClassOf(type)
               obj == IF ObjectClass = "Object" THEN Undefined ELSE maxId
           IN  IF ObjectClass \in SPAWNABLE_OBJECT_CLASSES \cup {"Object"}
               THEN /\ maxId' = IF obj = Undefined THEN maxId ELSE maxId + 1
                    /\ objectClasses' = (obj :> ObjectClass) @@ objectClasses
                    /\ worldObjects' = Append(worldObjects, obj)
                    /\ worldObjectsByID' = worldObjectsByID \cup {obj}
                    /\ threw' = FALSE
               ELSE /\ threw' = TRUE
                    /\ UNCHANGED <<maxId, objectClasses, worldObjects, worldObjectsByID>>
        /\ UNCHANGED <<groupVars, pathVars, goers, player, pissArea, tequila, now,
                       enteredAt, intersecting, frame, updateIndex, occupants,
                       removals, handled, contended, screen, updates, powerups, gridCall,
                       collisionCall>>

\* Editor._spawnObjectDebounced, case 'delete', on an object of the world.
SpawnedDelete ==
    \E i \in DOMAIN worldObjects :
        /\ SetWorld(RemoveWorldObject(World, worldObjects[i]))
        /\ UNCHANGED <<frame, updateIndex, contended, now, enteredAt, screen, updates>>

SpawnNext ==
    \/ SpawnObjectOfType
    \/ SpawnedDelete

SpecSpawn == SpawnInit /\ [][SpawnNext]_vars

-----------------------------------------------------------------------------
(* SpecPath: FestivalGoer.findPath and the path following of                 *)
(* TargetSeekingState.updateMove for one actor on a small grid.             *)
(*                                                                          *)
(* World positions are counted in half tiles from GRID_START: tile (x, y)   *)
(* spans 2x..2x+2 by 2y..2y+2 and has its centre at (2x+1, 2y+1).           *)

WALKABLE == 0
AI_UNWALKABLE == 1
UNWALKABLE == 2
GRID_TENT_SIZE == 4

GRID_ROWS == 2         \* rows of the grid of SpecPath (17 * GRID_SUBDIV in the source)
GRID_COLS == 2         \* columns of the grid of SpecPath (18 * GRID_SUBDIV in the source)
MaxBlocked == 4        \* tiles of the grid that are not WALKABLE

\* GRID_UNIT_WIDTH and GRID_UNIT_HEIGHT.  Positions are measured from GRID_OFFSET
\* in half tiles, so a tile is 2 wide and its centre lies 1 from its edge.
GRID_UNIT == 2

\* The cost of a straight and of a diagonal step of the grid search.
STRAIGHT_COST == 10
DIAGONAL_COST == 14

Clamp(x, min, max) == IF x < min THEN min ELSE IF x > max THEN max ELSE x

\* Grid.toGridCoordsUnclamped
ToGridCoordsUnclamped(pos) == [x |-> pos.x \div GRID_UNIT, y |-> pos.y \div GRID_UNIT]

\* A toGridCoords that clamps at the lower edges only.
ToGridCoords_ClampLow(pos) ==
    [x |-> IF pos.x < 0 THEN 0 ELSE pos.x \div GRID_UNIT,
     y |-> IF pos.y < 0 THEN 0 ELSE pos.y \div GRID_UNIT]

\* Grid.toGridCoords
ToGridCoords(pos) ==
    [x |-> Clamp(pos.x \div GRID_UNIT, 0, GRID_COLS - 1),
     y |-> Clamp(pos.y \div GRID_UNIT, 0, GRID_ROWS - 1)]

\* Grid.tileCenterFromGridCoords
TileCenterFromGridCoords(point) ==
    [x |-> point.x * GRID_UNIT + 1, y |-> point.y * GRID_UNIT + 1]

\* Grid._isValidGridTile
IsValidGridTile(point) ==
    ~(point.y < 0 \/ point.y >= GRID_ROWS \/ point.x < 0 \/ point.x >= GRID_COLS)

\* The read tileGrid[y][x] throws a TypeError when the grid has no row y.
ReadThrows(point) == point.y < 0 \/ point.y >= GRID_ROWS

\* tileGrid[y][x] === WALKABLE, for a row y that exists: a column x that does
\* not exist reads as undefined.
ReadsWalkable(grid, point) ==
    point.x >= 0 /\ point.x < GRID_COLS /\ grid[point.y][point.x] = WALKABLE

\* Vec2d.distanceTo, squared (the distances are only compared).
DistanceSquared(a, b) == (a.x - b.x) * (a.x - b.x) + (a.y - b.y) * (a.y - b.y)

\* The candidates of findNearestWalkableTile in the order the two loops push
\* them: rowRel and colRel run from -searchRadius to searchRadius - 1; index is
\* the place of the candidate in the array.
Candidate(grid, center, target, searchRadius, i) ==
    LET rowRel == ((i - 1) \div (2 * searchRadius)) - searchRadius
        colRel == ((i - 1) % (2 * searchRadius)) - searchRadius
        gridPos == [x |-> target.x + colRel, y |-> target.y + rowRel]
        gridPosClamped == ToGridCoords(TileCenterFromGridCoords(gridPos))
    IN  [index |-> i,
         gridPos |-> gridPos,
         distance |-> DistanceSquared(center, TileCenterFromGridCoords(gridPos)),
         walkable |-> grid[gridPosClamped.y][gridPosClamped.x] = WALKABLE]

\* FestivalGoer.findNearestWalkableTile: the walkable candidates sorted by
\* distance, the sort keeping the order of the loops between equal distances;
\* <<>> stands for null, <<gridPos>> for a tile.
FindNearestWalkableTile(grid, center, target, searchRadius) ==
    LET count == (2 * searchRadius) * (2 * searchRadius)
        candidates == {Candidate(grid, center, target, searchRadius, i) : i \in 1..count}
        bestCandidates ==
            UNION {{c \in walkable :
                       \A k \in walkable :
                          \/ c.distance < k.distance
                          \/ c.distance = k.distance /\ c.index <= k.index} :
                   walkable \in {{c \in candidates : c.walkable}}}
    IN  IF bestCandidates = {} THEN <<>>
        ELSE <<(CHOOSE c \in bestCandidates : TRUE).gridPos>>

\* EasyStar (setAcceptableTiles([WALKABLE]), enableDiagonals,
\* disableCornerCutting, enableSync), from the library's documented behaviour.
GridTiles == {[x |-> x, y |-> y] : x \in 0..(GRID_COLS - 1), y \in 0..(GRID_ROWS - 1)}

Acceptable(grid, point) == IsValidGridTile(point) /\ grid[point.y][point.x] = WALKABLE

\* The cost of the step from a to b: 10 for a straight step, 14 for a diagonal
\* one, which needs both tiles it passes between to be acceptable; 0 for no step.
StepCost(grid, a, b) ==
    LET dx == Abs(a.x - b.x)
        dy == Abs(a.y - b.y)
    IN  IF dx > 1 \/ dy > 1 \/ (dx = 0 /\ dy = 0) \/ ~Acceptable(grid, b) THEN 0
        ELSE IF dx + dy = 1 THEN STRAIGHT_COST
        ELSE IF Acceptable(grid, [x |-> b.x, y |-> a.y])
                /\ Acceptable(grid, [x |-> a.x, y |-> b.y])
        THEN DIAGONAL_COST
        ELSE 0

\* cost[p] is the cost of the cheapest route found so far from p to the goal, -1
\* when none was found; one more round of relaxation.  step[p][q] is the cost
\* of the step from p to q.
Relaxed(step, cost) ==
    [p \in GridTiles |->
        LET via == {step[p][q] + cost[q] :
                       q \in {r \in GridTiles : step[p][r] > 0 /\ cost[r] >= 0}}
            all == via \cup (IF cost[p] >= 0 THEN {cost[p]} ELSE {})
        IN  IF all = {} THEN -1
            ELSE CHOOSE c \in all : \A d \in all : c <= d]

RECURSIVE RouteCosts(_, _)
RouteCosts(step, cost) ==
    LET next == Relaxed(step, cost)
    IN  IF next = cost THEN cost ELSE RouteCosts(step, next)

RECURSIVE RouteFrom(_, _, _)
\* A cheapest route from p to the goal, p included; which of several cheapest
\* routes the library returns is left open.
RouteFrom(step, cost, p) ==
    IF cost[p] = 0 THEN <<p>>
    ELSE LET q == CHOOSE r \in GridTiles :
                     step[p][r] > 0 /\ cost[r] >= 0 /\ step[p][r] + cost[r] = cost[p]
         IN  <<p>> \o RouteFrom(step, cost, q)

\* easystar.findPath followed by easystar.calculate: what the callback is called
\* with ("null" or a list of tiles), or "error" when findPath throws because a
\* point lies outside the grid.
EasyStarFindPath(grid, start, end) ==
    IF ~IsValidGridTile(start) \/ ~IsValidGridTile(end)
    THEN [kind |-> "error", gridPath |-> <<>>]
    ELSE IF start = end THEN [kind |-> "path", gridPath |-> <<>>]
    ELSE IF ~Acceptable(grid, end) THEN [kind |-> "null", gridPath |-> <<>>]
    ELSE LET step == [p \in GridTiles |-> [q \in GridTiles |-> StepCost(grid, p, q)]]
             cost == RouteCosts(step, [p \in GridTiles |-> IF p = end THEN 0 ELSE -1])
         IN  IF cost[start] < 0 THEN [kind |-> "null", gridPath |-> <<>>]
             ELSE [kind |-> "path", gridPath |-> RouteFrom(step, cost, start)]

\* A Path, and null in its place.
NewPath(points) == [isNull |-> FALSE, points |-> points, nextPointIndex |-> 0]
NullPath == [isNull |-> TRUE, points |-> <<>>, nextPointIndex |-> 0]

\* FestivalGoer.findPath.  lastSearch tells how the last call ended and with
\* which tiles (history): "TypeError" when a read of tileGrid threw, "start is
\* unwalkable", "end is unwalkable", "failed" for the callback with null, "empty"
\* for the callback with no tiles, "error" for a throw of the search, "path".
FindPath(goer, grid, targetPos) ==
    LET searching == [goer EXCEPT !.isPathfinding = TRUE]
        start0 == ToGridCoords(goer.center)
        end0 == ToGridCoords(targetPos)
        searchRadius == GRID_TENT_SIZE
        improvedStart == IF ~ReadsWalkable(grid, start0)
                         THEN FindNearestWalkableTile(grid, goer.center, start0, searchRadius)
                         ELSE <<>>
        start == IF improvedStart # <<>> THEN improvedStart[1] ELSE start0
        improvedEnd == IF ~ReadsWalkable(grid, end0)
                       THEN FindNearestWalkableTile(grid, goer.center, end0, searchRadius)
                       ELSE <<>>
        end == IF improvedEnd # <<>> THEN improvedEnd[1] ELSE end0
        ended(how) == [searching EXCEPT
                         !.lastSearch = [outcome |-> how,
                                         targetPos |-> <<targetPos>>,
                                         start0 |-> start0, end0 |-> end0,
                                         start |-> start, end |-> end,
                                         improvedStart |-> improvedStart,
                                         improvedEnd |-> improvedEnd]]
    IN  IF ReadThrows(start) THEN ended("TypeError")
        ELSE IF ~ReadsWalkable(grid, start) THEN ended("start is unwalkable")
        ELSE IF ReadThrows(end) THEN ended("TypeError")
        ELSE IF ~ReadsWalkable(grid, end) THEN ended("end is unwalkable")
        ELSE LET found == EasyStarFindPath(grid, start, end)
             IN  IF found.kind = "error" THEN ended("error")
                 ELSE IF found.kind = "null" THEN ended("failed")
                 ELSE IF Len(found.gridPath) = 0 THEN ended("empty")
                 ELSE [ended("path") EXCEPT
                         !.path = NewPath([i \in 1..Len(found.gridPath) |->
                                             TileCenterFromGridCoords(found.gridPath[i])]),
                         !.isPathfinding = FALSE]

\* Path.getNextPoint: <<>> stands for null.
GetNextPoint(path) ==
    IF path.nextPointIndex < Len(path.points)
    THEN <<path.points[path.nextPointIndex + 1]>>
    ELSE <<>>

\* Path.nextPointIsDestination
NextPointIsDestination(path) == path.nextPointIndex >= Len(path.points) - 1

Sign(n) == IF n > 0 THEN 1 ELSE IF n < 0 THEN -1 ELSE 0

\* The step of one half tile from a towards b (directionTo, on the lattice).
StepTowards(a, b) == [x |-> a.x + Sign(b.x - a.x), y |-> a.y + Sign(b.y - a.y)]

\* The change of position of AIFestivalGoer.update: the step is taken back when
\* it leads off the grid or onto an UNWALKABLE tile.
MoveTowards(goer, grid, point) ==
    LET updatedCenter == StepTowards(goer.center, point)
        tile == ToGridCoordsUnclamped(updatedCenter)
    IN  IF updatedCenter = goer.center THEN goer
        ELSE IF ~IsValidGridTile(tile) \/ grid[tile.y][tile.x] = UNWALKABLE THEN goer
        ELSE [goer EXCEPT !.center = updatedCenter]

\* An updateMove that advances the path in every call.
SeekingUpdateMove_AlwaysAdvance(goer, grid) ==
    IF goer.pathfindingTargetPos = <<>> THEN goer
    ELSE IF goer.path.isNull /\ ~goer.isPathfinding
    THEN FindPath(goer, grid, goer.pathfindingTargetPos[1])
    ELSE IF ~goer.path.isNull
    THEN LET advanced == [goer EXCEPT !.path.nextPointIndex = @ + 1]
         IN  IF GetNextPoint(advanced.path) # <<>>
             THEN MoveTowards(advanced, grid, GetNextPoint(advanced.path)[1])
             ELSE MoveTowards(advanced, grid, advanced.pathfindingTargetPos[1])
    ELSE goer

\* TargetSeekingState.updateMove with the change of position that follows it.
\* On the lattice the actor is within one pixel of a point when it is on it.
SeekingUpdateMove(goer, grid) ==
    IF goer.pathfindingTargetPos = <<>> THEN goer
    ELSE IF goer.path.isNull /\ ~goer.isPathfinding
    THEN FindPath(goer, grid, goer.pathfindingTargetPos[1])
    ELSE IF ~goer.path.isNull
    THEN LET curPoint == GetNextPoint(goer.path)
             advanced == IF curPoint # <<>> /\ goer.center = curPoint[1]
                         THEN [goer EXCEPT !.path.nextPointIndex = @ + 1]
                         ELSE goer
         IN  IF ~NextPointIsDestination(advanced.path)
             THEN MoveTowards(advanced, grid, GetNextPoint(advanced.path)[1])
             ELSE MoveTowards(advanced, grid, advanced.pathfindingTargetPos[1])
    ELSE goer

\* The grids of SpecPath: at most MaxBlocked tiles are AI_UNWALKABLE (the boxes
\* of tents), the other ones WALKABLE.
PathGrids ==
    {[y \in 0..(GRID_ROWS - 1) |->
         [x \in 0..(GRID_COLS - 1) |->
             IF [x |-> x, y |-> y] \in blocked THEN AI_UNWALKABLE ELSE WALKABLE]] :
       blocked \in {b \in SUBSET GridTiles : Cardinality(b) <= MaxBlocked}}

\* The tile coordinates the operations of Grid are called with: the tiles of the
\* grid and those one row or column outside it.
GridPoints == {[x |-> x, y |-> y] : x \in -1..GRID_COLS, y \in -1..GRID_ROWS}

\* The world positions toGridCoords is called with: on the grid and up to a tile
\* and a half left of, above, right of and below it.
GridPositions ==
    {[x |-> x, y |-> y] : x \in (-GRID_UNIT - 1)..(GRID_COLS * GRID_UNIT + GRID_UNIT),
                          y \in (-GRID_UNIT - 1)..(GRID_ROWS * GRID_UNIT + GRID_UNIT)}

\* array[i] = v: an index the array does not have yet is added to it.
ArraySet(array, i, v) == [k \in DOMAIN array \cup {i} |-> IF k = i THEN v ELSE array[k]]

\* Grid.getGridTile: <<>> stands for null.
GetGridTile(grid, point) ==
    IF ~IsValidGridTile(point) THEN <<>> ELSE <<grid[point.y][point.x]>>

\* A _setGridTile that writes without asking _isValidGridTile.
SetGridTile_Unchecked(grid, point, setTo) ==
    LET row == IF point.y \in DOMAIN grid THEN grid[point.y] ELSE <<>>
    IN  ArraySet(grid, point.y, ArraySet(row, point.x, setTo[1]))

\* Grid._setGridTile: setTo is <<>> for the toggle of toggleGridTile.
SetGridTile(grid, point, setTo) ==
    IF ~IsValidGridTile(point) THEN grid
    ELSE ArraySet(grid, point.y,
                  ArraySet(grid[point.y], point.x,
                           IF setTo = <<>>
                           THEN IF grid[point.y][point.x] = WALKABLE
                                THEN AI_UNWALKABLE ELSE WALKABLE
                           ELSE setTo[1]))

\* An actor stands with its centre anywhere on the grid, the left and the upper
\* edge included; it has no target yet.
PathInit ==
    /\ NoTents
    /\ NoWorld
    /\ NoUnit
    /\ tileGrid \in PathGrids
    /\ \E cx \in 0..(GRID_COLS * GRID_UNIT - 1), cy \in 0..(GRID_ROWS * GRID_UNIT - 1) :
          seeker = [center |-> [x |-> cx, y |-> cy],
                    pathfindingTargetPos |-> <<>>,
                    path |-> NullPath,
                    isPathfinding |-> FALSE,
                    lastSearch |-> [outcome |-> "none", targetPos |-> <<>>,
                                    start0 |-> [x |-> 0, y |-> 0],
                                    end0 |-> [x |-> 0, y |-> 0],
                                    start |-> [x |-> 0, y |-> 0],
                                    end |-> [x |-> 0, y |-> 0],
                                    improvedStart |-> <<>>, improvedEnd |-> <<>>]]

\* AIFestivalGoer.update of the seeking actor: an actor without a target acquires
\* the tent whose centre is the centre of tile target and starts seeking it; then
\* comes updateMove with the change of position, and then the update of
\* TargetSeekingState, which clears the target when lost tells that the tent is
\* no longer usable.  A TypeError thrown by findPath leaves the animation frame
\* callback before it asks for the next frame.
SeekerUpdate ==
    /\ seeker.lastSearch.outcome # "TypeError"
    /\ \E lost \in BOOLEAN :
       \E target \in IF seeker.pathfindingTargetPos = <<>> THEN GridTiles
                      ELSE {ToGridCoords(seeker.pathfindingTargetPos[1])} :
          LET seeking == IF seeker.pathfindingTargetPos = <<>>
                         THEN [seeker EXCEPT
                                 !.pathfindingTargetPos = <<TileCenterFromGridCoords(target)>>]
                         ELSE seeker
              moved == SeekingUpdateMove(seeking, tileGrid)
          IN  seeker' = IF lost /\ moved.lastSearch.outcome # "TypeError"
                        THEN [moved EXCEPT !.pathfindingTargetPos = <<>>,
                                           !.path = NullPath]
                        ELSE moved
    /\ UNCHANGED <<tileGrid, groupVars, worldVars, unitVars>>

PathNext == SeekerUpdate

SpecPath == PathInit /\ [][PathNext]_vars

-----------------------------------------------------------------------------
(* SpecGrid: the operations of Grid on tiles and positions, as the editor's *)
(* grid tool, the tent boxes and the pathfinding call them.                 *)

GridInit ==
    /\ NoTents
    /\ NoWorld
    /\ NoLoad
    /\ gridCall = NoGridCall
    /\ collisionCall = NoCollisionCall
    /\ tileGrid \in PathGrids
    /\ seeker = <<>>

\* grid.getGridTile(point)
GridGet ==
    \E point \in GridPoints :
        /\ gridCall' = [op |-> "getGridTile", point |-> point, setTo |-> <<>>,
                        result |-> GetGridTile(tileGrid, point)]
        /\ UNCHANGED <<tileGrid, seeker, groupVars, worldVars, loadVars, collisionCall>>

\* grid.setGridTile(point, setTo)
GridSet ==
    \E point \in GridPoints, setTo \in {WALKABLE, AI_UNWALKABLE, UNWALKABLE} :
        /\ tileGrid' = SetGridTile(tileGrid, point, <<setTo>>)
        /\ gridCall' = [op |-> "setGridTile", point |-> point, setTo |-> <<setTo>>,
                        result |-> <<>>]
        /\ UNCHANGED <<seeker, groupVars, worldVars, loadVars, collisionCall>>

\* grid.toggleGridTile(point)
GridToggle ==
    \E point \in GridPoints :
        /\ tileGrid' = SetGridTile(tileGrid, point, <<>>)
        /\ gridCall' = [op |-> "toggleGridTile", point |-> point, setTo |-> <<>>,
                        result |-> <<>>]
        /\ UNCHANGED <<seeker, groupVars, worldVars, loadVars, collisionCall>>

\* grid.toGridCoords(pos)
GridToGridCoords ==
    \E pos \in GridPositions :
        /\ gridCall' = [op |-> "toGridCoords", point |-> pos, setTo |-> <<>>,
                        result |-> <<ToGridCoords(pos)>>]
        /\ UNCHANGED <<tileGrid, seeker, groupVars, worldVars, loadVars, collisionCall>>

\* grid.toGridCoordsUnclamped(pos)
GridToGridCoordsUnclamped ==
    \E pos \in GridPositions :
        /\ gridCall' = [op |-> "toGridCoordsUnclamped", point |-> pos, setTo |-> <<>>,
                        result |-> <<ToGridCoordsUnclamped(pos)>>]
        /\ UNCHANGED <<tileGrid, seeker, groupVars, worldVars, loadVars, collisionCall>>

GridNext ==
    \/ GridGet
    \/ GridSet
    \/ GridToggle
    \/ GridToGridCoords
    \/ GridToGridCoordsUnclamped

SpecGrid == GridInit /\ [][GridNext]_vars

-----------------------------------------------------------------------------
(* SpecCollision: the rectangle test of the collision pass on two objects   *)
(* with positions and bounding boxes of their own.                          *)

MaxCoord == 2     \* positions run from 0 to here on both axes

\* The objects: a position, and a box from bboxStart to bboxEnd, which may be
\* empty in one direction or both.
Boxes ==
    {[pos |-> [x |-> px, y |-> py],
      bboxStart |-> [x |-> sx, y |-> sy],
      bboxEnd |-> [x |-> ex, y |-> ey]] :
        px \in 0..MaxCoord, py \in 0..MaxCoord,
        sx \in 0..1, sy \in 0..1, ex \in 1..2, ey \in 1..2}

\* A collision that takes boxes that only touch as apart.
collision_Strict(a, b) ==
    LET ax1 == a.pos.x + a.bboxStart.x
        ay1 == a.pos.y + a.bboxStart.y
        ax2 == a.pos.x + a.bboxEnd.x
        ay2 == a.pos.y + a.bboxEnd.y
        bx1 == b.pos.x + b.bboxStart.x
        by1 == b.pos.y + b.bboxStart.y
        bx2 == b.pos.x + b.bboxEnd.x
        by2 == b.pos.y + b.bboxEnd.y
    IN  ~(ax1 >= bx2 \/ bx1 >= ax2 \/ ay1 >= by2 \/ by1 >= ay2)

\* collision(a, b)
collision(a, b) ==
    LET ax1 == a.pos.x + a.bboxStart.x
        ay1 == a.pos.y + a.bboxStart.y
        ax2 == a.pos.x + a.bboxEnd.x
        ay2 == a.pos.y + a.bboxEnd.y
        bx1 == b.pos.x + b.bboxStart.x
        by1 == b.pos.y + b.bboxStart.y
        bx2 == b.pos.x + b.bboxEnd.x
        by2 == b.pos.y + b.bboxEnd.y
    IN  ~(ax1 > bx2 \/ bx1 > ax2 \/ ay1 > by2 \/ by1 > ay2)

CollisionInit ==
    /\ NoTents
    /\ NoWorld
    /\ NoPath
    /\ NoLoad
    /\ gridCall = NoGridCall
    /\ \E a \in Boxes, b \in Boxes : collisionCall = [a |-> a, b |-> b, result |-> <<>>]

\* if (collision(object, otherObject)) of Game._detectCollisions, for the two
\* objects drawn; result is <<>> until the call is made.
CollisionTest ==
    /\ collisionCall.result = <<>>
    /\ collisionCall' = [collisionCall EXCEPT
                            !.result = <<collision(collisionCall.a, collisionCall.b)>>]
    /\ UNCHANGED <<groupVars, worldVars, pathVars, loadVars, gridCall>>

CollisionNext == CollisionTest

SpecCollision == CollisionInit /\ [][CollisionNext]_vars

-----------------------------------------------------------------------------
(* The connected groups of the claims, stated without the flood: the least  *)
(* set holding t and closed under adjacency among non-ruined tents.         *)

\* The tents of the level.
TentIds == DOMAIN tents

NonRuined == {t \in TentIds : ~IsRuinedByPlayer(tents[t])}

Linked(a, b) == b \in SeqToSet(tentAdjacencies[a])

RECURSIVE Closure(_, _)
Closure(S, among) ==
    LET more == S \cup {u \in among : \E v \in S : Linked(v, u)}
    IN  IF more = S THEN S ELSE Closure(more, among)

ComponentOf(t) == IF t \in NonRuined THEN Closure({t}, NonRuined) ELSE {}

\* The group of every tent.
Components == [t \in TentIds |-> ComponentOf(t)]

HasOccupant(S) == \E u \in S : tents[u].occupied

\* C1: after a recompute every non-ruined tent whose connected group of non-ruined
\* tents has at most MAX_CAPTURABLE_TENT_GROUP members is 'red' if a tent of the
\* group is occupied and 'blue' otherwise, and every 'blue' tent is captured.
C1_SmallGroupsColored ==
    recomputed =>
        LET comp == Components
        IN  /\ \A t \in NonRuined :
                  Cardinality(comp[t]) <= MAX_CAPTURABLE_TENT_GROUP =>
                     tentGroups[t] = IF HasOccupant(comp[t]) THEN "red" ELSE "blue"
            /\ \A t \in TentIds : tentGroups[t] = "blue" => tents[t].captured

\* C1 witness: a recompute has colored one small group red and another one blue.
C1_Witness ==
    /\ recomputed
    /\ \E a, b \in NonRuined :
          /\ Cardinality(ComponentOf(a)) \in 2..MAX_CAPTURABLE_TENT_GROUP
          /\ tentGroups[a] = "red"
          /\ tentGroups[b] = "blue" /\ tents[b].captured

\* C2 (as claimed): after a recompute every tent that is ruined by the player is
\* mapped to 'green' in tentGroups.
C2_RuinedAreGreen ==
    recomputed => \A t \in TentIds : IsRuinedByPlayer(tents[t]) => tentGroups[t] = "green"

\* C3: the flood started at any tent visits only tents joined to the start by a
\* chain of non-ruined tents and reports an occupant only from among them; so a
\* tent is 'red' only if a tent of its own group is occupied, whatever stands
\* behind a ruined tent, and 'blue' only if none is.
C3_FloodStopsAtRuined ==
    LET comp == Components
    IN  /\ \A s \in TentIds :
              LET found == CheckForTentGroup(s, tents, tentAdjacencies)
              IN  /\ found.visited \subseteq comp[s]
                  /\ found.containsOccupant => HasOccupant(comp[s])
        /\ \A t \in TentIds : tentGroups[t] = "red" => HasOccupant(comp[t])
        /\ \A t \in TentIds : tentGroups[t] = "blue" => ~HasOccupant(comp[t])

\* C3 witness: a ruined tent r stands between a and b, which no chain of
\* non-ruined tents joins; a's side is red and b's side is blue.
C3_Witness ==
    \E a, b, r \in TentIds :
        /\ IsRuinedByPlayer(tents[r])
        /\ Linked(a, r) /\ Linked(r, b)
        /\ a \in NonRuined /\ b \in NonRuined
        /\ b \notin ComponentOf(a)
        /\ tentGroups[a] = "red" /\ tentGroups[b] = "blue"

\* C4: no tent of a connected group of more than MAX_CAPTURABLE_TENT_GROUP
\* non-ruined tents is 'blue' or 'red', is captured, or has earned the bonus.
C4_LargeGroupsUnclaimed ==
    LET comp == Components
    IN  \A t \in NonRuined :
            Cardinality(comp[t]) > MAX_CAPTURABLE_TENT_GROUP =>
                /\ tentGroups[t] \notin {"blue", "red"}
                /\ ~tents[t].captured
                /\ t \notin bonusAwarded

\* C4 witness: a recompute has run over a group of more than three tents, one of
\* them occupied.
C4_Witness ==
    /\ recomputed
    /\ \E t \in NonRuined :
          /\ Cardinality(ComponentOf(t)) > MAX_CAPTURABLE_TENT_GROUP
          /\ HasOccupant(ComponentOf(t))

\* The actors that have entered a tent.
Entered == UNION {SeqToSet(occupants[t]) : t \in DOMAIN occupants}

InWorld(a) == a \in SeqToSet(worldObjects)

\* The step is a collision pass.
IsCollisionPass == updateIndex > Len(worldObjects)

C6_EnterTentOnce ==
    /\ ~threw
    /\ \A t \in TentIds :
          /\ Len(occupants[t]) <= 1
          /\ tents[t].occupied <=> Len(occupants[t]) = 1
          /\ (tents[t].occupied /\ ~IsRuinedByPlayer(tents[t])
                /\ Cardinality(ComponentOf(t)) <= MAX_CAPTURABLE_TENT_GROUP)
             => recomputed /\ tentGroups[t] = "red"
    /\ \A a \in GoerIds :
          /\ Cardinality({t \in TentIds : a \in SeqToSet(occupants[t])}) <= 1
          /\ IF a \in Entered
             THEN /\ ~goers[a].enabled
                  /\ ~InWorld(a)
                  /\ a \notin worldObjectsByID
                  /\ removals[a] = 1
             ELSE /\ goers[a].enabled
                  /\ InWorld(a)
                  /\ a \in worldObjectsByID
                  /\ removals[a] = 0

\* C6 witness: both actors have entered a tent, each its own.
C6_Witness ==
    \E t, u \in TentIds :
        /\ t # u
        /\ Len(occupants[t]) = 1 /\ Len(occupants[u]) = 1
        /\ occupants[t] # occupants[u]

\* C7 (as claimed): every attack state of the timed family that the player enters
\* is left again a bounded time after it was entered: at the end of a frame the
\* player has not been in such a state for longer than the longest duration a
\* state of the family declares and one frame.
C7_TimedStatesAreLeft ==
    player.state \in {"SmashingState", "TentPissingState", "BigPissState"} =>
        now - enteredAt <= BIG_PISS_DURATION + MaxFrameTime

\* The ways a call of findPath fails.
FailedOutcomes ==
    {"TypeError", "start is unwalkable", "end is unwalkable", "error", "failed", "empty"}

\* The actor as the next frame sees it in updateMove: an actor without a target
\* has acquired the tent whose centre is the centre of tile target.  The record
\* of the last search is wiped, so that a call of findPath shows.
Seeking(target) ==
    [seeker EXCEPT
       !.pathfindingTargetPos = IF @ = <<>> THEN <<TileCenterFromGridCoords(target)>> ELSE @,
       !.lastSearch.outcome = "none"]

\* C8 (as claimed): a failed call of findPath leaves the actor without a path and
\* does not keep it from pathfinding again: the next frame, in which the actor
\* seeks its target or a newly acquired one without a path, calls findPath again.
C8_FailedSearchIsRetried ==
    (seeker.lastSearch.outcome \in FailedOutcomes \ {"TypeError"}) =>
        /\ seeker.path.isNull
        /\ \A target \in GridTiles :
              SeekingUpdateMove(Seeking(target), tileGrid).lastSearch.outcome # "none"

\* C9 (as claimed): when the grid search answers with no tiles, start and end
\* being the same tile, findPath leaves the actor a Path of one waypoint, the
\* position it was asked to reach, and isPathfinding false.
C9_EmptyRouteIsSingleWaypoint ==
    (seeker.lastSearch.outcome = "empty" /\ seeker.pathfindingTargetPos # <<>>) =>
        /\ ~seeker.path.isNull
        /\ seeker.path.points = seeker.lastSearch.targetPos
        /\ ~seeker.isPathfinding

\* The tiles of the grid in the search box of findNearestWalkableTile around tile
\* target that are WALKABLE.
WalkableInBox(grid, target, searchRadius) ==
    {p \in GridTiles : /\ p.x - target.x \in (-searchRadius)..(searchRadius - 1)
                       /\ p.y - target.y \in (-searchRadius)..(searchRadius - 1)
                       /\ grid[p.y][p.x] = WALKABLE}

\* The outcomes of findPath that follow a started grid search.
StartedOutcomes == {"error", "failed", "empty", "path"}

\* C10 (as claimed): a tile that findNearestWalkableTile returned to findPath lies
\* inside the grid and is WALKABLE; the grid search is started only between two
\* WALKABLE tiles of the grid; and it is started whenever the search box of every
\* endpoint that is not WALKABLE holds a WALKABLE tile.
C10_CorrectedEndpointsAreWalkable ==
    LET search == seeker.lastSearch
    IN  search.outcome # "none" =>
           /\ \A p \in SeqToSet(search.improvedStart) \cup SeqToSet(search.improvedEnd) :
                  Acceptable(tileGrid, p)
           /\ search.outcome \in StartedOutcomes =>
                  Acceptable(tileGrid, search.start) /\ Acceptable(tileGrid, search.end)
           /\ (/\ \/ Acceptable(tileGrid, search.start0)
                   \/ WalkableInBox(tileGrid, search.start0, GRID_TENT_SIZE) # {}
                /\ \/ Acceptable(tileGrid, search.end0)
                   \/ WalkableInBox(tileGrid, search.end0, GRID_TENT_SIZE) # {})
                  => search.outcome \in StartedOutcomes

\* C11 (as claimed): no exception escapes Game.update.  In the frame loop the
\* exceptions are those of removeWorldObject and of the loops over worldObjects
\* (threw); in the update of a seeking actor they are 'expected next point',
\* which updateMove cannot reach (a path whose next point is not its destination
\* has a next point), and the TypeError of findPath reading a row of tileGrid
\* that does not exist.
C11_NoExceptionEscapesUpdate ==
    /\ ~threw
    /\ seeker # <<>> => seeker.lastSearch.outcome # "TypeError"

\* The calls of log from its i-th entry on are made in order on an object whose
\* state is current at that point and final at the end: an exit is made on the
\* current state and is followed at once by the assignment of a state and the
\* enter of that state; an enter outside a transition is made on the current
\* state; an update that returned a state was made on the current state and is
\* followed at once by the exit, the assignment and the enter of the transition
\* to the state returned; the state is assigned nowhere else.
RECURSIVE LogInOrder(_, _, _, _)
LogInOrder(log, i, current, final) ==
    IF i > Len(log) THEN current = final
    ELSE LET e == log[i]
         IN  CASE e.op = "exit" ->
                     /\ e.state = current
                     /\ i + 2 <= Len(log)
                     /\ log[i + 1].op = "set"
                     /\ log[i + 2].op = "enter"
                     /\ log[i + 2].state = log[i + 1].state
                     /\ LogInOrder(log, i + 3, log[i + 1].state, final)
               [] e.op = "enter" ->
                     e.state = current /\ LogInOrder(log, i + 1, current, final)
               [] e.op = "update" ->
                     /\ e.returned # "" =>
                           /\ e.state = current
                           /\ i + 2 <= Len(log)
                           /\ log[i + 1].op = "exit"
                           /\ log[i + 2] = Event("set", e.returned, "", 0)
                     /\ LogInOrder(log, i + 1, current, final)
               [] OTHER -> FALSE

\* A step leaves the state of the object alone, or a handler ran on the object
\* and every change of its state was made by a transition in order.
LifecycleStep(old, new) ==
    \/ new.log = old.log /\ new.state = old.state
    \/ /\ new.log # <<>>
       /\ new.log[1] = Event("start", old.state, "", old.enters)
       /\ LogInOrder(new.log, 2, old.state, new.state)

\* C12: transitionTo on an actor (autonomous or the player) or on a powerup calls
\* exit on the current state, then assigns the next state, then calls enter on
\* it; the state of an object changes in no other way; and a state that
\* state.update() returned is installed by such a transition right after the
\* call, in the same update.
C12_TransitionsInOrder ==
    [][/\ \A a \in DOMAIN goers : LifecycleStep(goers[a], goers'[a])
       /\ LifecycleStep(player, player')
       /\ LifecycleStep(tequila, tequila')]_vars

\* C12 happens: at the end of one frame the Tequila was picked up (the powerup
\* and the player made a transition each) and an actor's FleeingState had
\* returned the IdleState that its update then installed.
C12_Witness ==
    /\ tequila.state = "PickedUpPowerupState"
    /\ Len(tequila.log) = 4
    /\ player.state = "BigPissState"
    /\ Len(player.log) = 4
    /\ \E a \in DOMAIN goers :
          /\ Len(goers[a].log) = 5
          /\ goers[a].log[2] = Event("update", "FleeingState", "IdleState", 0)
          /\ goers[a].state = "IdleState"

\* The state object that is the current state of an actor was entered once
\* before its update ran, never twice, and every state object that a transition
\* of the last handler left had been entered once.
EnteredOnce(actor) ==
    /\ actor.enters <= 1
    /\ actor.updated => actor.enters = 1
    /\ \A i \in DOMAIN actor.log :
          actor.log[i].op = "exit" => actor.log[i].enters = 1

\* C13 (as claimed): for every state object that becomes the current state of an
\* autonomous actor or of the player, the first IdleState included, enter runs
\* once, before the first update of that object, and exit runs when it is
\* replaced and not before.
C13_StatesEnteredOnce ==
    /\ \A a \in DOMAIN goers : EnteredOnce(goers[a])
    /\ player # <<>> => EnteredOnce(player)

\* C14 (as claimed): once removeWorldObject(x) has run nothing that remains in
\* the world refers to x: the target of an actor of the world, the effect area
\* recorded on a tent of the world and the adjacency lists of the tents of the
\* world name objects of the world only.
C14_NoReferenceToRemoved ==
    /\ \A a \in GoersOf(World) :
          goers[a].target # Null => goers[a].target \in worldObjectsByID
    /\ \A t \in TentsOf(World) :
          /\ t \in intersecting => PissAreaId \in worldObjectsByID
          /\ SeqToSet(tentAdjacencies[t]) \subseteq worldObjectsByID

\* The tents whose captured flag the step turns from false to true.
NewlyCaptured == {t \in DOMAIN tents : ~tents[t].captured /\ tents'[t].captured}

\* C15: a handler adds the capture bonus once for each tent whose captured flag
\* its recompute turns from false to true and for no other tent, however often
\* the floods of the recompute reach the tent (what the handler adds to the
\* score beyond that is the 100 of a pissing, or nothing); captured is never
\* reset, so no tent earns the bonus twice.
C15_BonusOncePerTent ==
    [][/\ bonusAwarded' = NewlyCaptured
       /\ scoreGain' - CAPTURE_BONUS * Cardinality(NewlyCaptured) \in {0, PISS_SCORE}
       /\ \A t \in DOMAIN tents : tents[t].captured => tents'[t].captured]_vars

\* C15 happens: a recompute has just paid the bonus for a tent while another
\* tent, captured by an earlier recompute, was colored 'blue' again and earned
\* nothing.
C15_Witness ==
    \E t, u \in DOMAIN tents :
        /\ t \in bonusAwarded
        /\ u \notin bonusAwarded
        /\ tents[u].captured
        /\ tentGroups[u] = "blue"

\* The step is the update of autonomous actor a.
IsUpdateOf(a) ==
    /\ updateIndex <= Len(worldObjects)
    /\ worldObjects[updateIndex] = a
    /\ updateIndex' = updateIndex + 1

\* C16: a usable tent is not ruined, not occupied and not captured; the tent an
\* actor acquires as target is usable when it is acquired; the tent an actor
\* occupies is usable when it is entered (it was usable before the collision
\* pass, nobody entered it before, and no recompute of the pass captured it
\* first); and an actor that is in TargetSeekingState when its update ends has a
\* target, and that target is usable.
C16_OnlyUsableTents ==
    [][/\ \A t \in DOMAIN tents :
             IsUsable(tents[t]) =>
                 ~IsRuinedByPlayer(tents[t]) /\ ~tents[t].occupied /\ ~tents[t].captured
       /\ \A a \in DOMAIN goers :
             /\ goers[a].target = Null /\ goers'[a].target # Null =>
                   /\ IsUpdateOf(a)
                   /\ IsUsable(tents[goers'[a].target])
             /\ \A t \in DOMAIN tents :
                   a \in SeqToSet(occupants'[t]) \ SeqToSet(occupants[t]) =>
                       /\ IsUsable(tents[t])
                       /\ occupants'[t] = <<a>>
                       /\ tents'[t].occupied
                       /\ ~tents'[t].captured
             /\ IsUpdateOf(a) /\ goers'[a].state = "TargetSeekingState" =>
                   /\ goers'[a].target # Null
                   /\ IsUsable(tents'[goers'[a].target])]_vars

\* C16 happens: an actor has just ended its update in TargetSeekingState, bound
\* for a usable tent that is further from it than a tent that is not usable
\* any more, and the other actor has entered a tent.
C16_Witness ==
    /\ updateIndex > 1
    /\ updateIndex <= Len(worldObjects) + 1
    /\ \E a \in GoersOf(World), t \in TentsOf(World) :
          /\ worldObjects[updateIndex - 1] = a
          /\ goers[a].state = "TargetSeekingState"
          /\ goers[a].target # Null
          /\ goers[a].target # t
          /\ IsUsable(tents[goers[a].target])
          /\ ~IsUsable(tents[t])
          /\ Abs(tentX[t] - GoerX(goers[a], tentX))
                < Abs(tentX[goers[a].target] - GoerX(goers[a], tentX))
          /\ Entered # {}

\* The usable tents of the world, and those of them that no autonomous actor
\* of the world targets.
UsableTents == {t \in TentsOf(World) : IsUsable(tents[t])}
UntargetedUsableTents ==
    UsableTents \ {goers[b].target : b \in GoersOf(World)}

\* t is a tent of the set that no other tent of the set is closer to actor a.
IsClosestOf(t, set, a) ==
    /\ t \in set
    /\ \A u \in set : Abs(tentX[t] - GoerX(goers[a], tentX))
                         <= Abs(tentX[u] - GoerX(goers[a], tentX))

OverlapsPissArea(a) ==
    /\ a \in worldObjectsByID
    /\ PissAreaId \in worldObjectsByID
    /\ pissArea.goers
    /\ goers[a].at = pissArea.at

C19_HitActorsFlee ==
    [][IsCollisionPass /\ frame' = frame + 1 =>
          \A a \in DOMAIN goers :
              goers[a].enabled /\ OverlapsPissArea(a) =>
                  /\ a \in worldObjectsByID'
                  /\ goers'[a].enabled
                  /\ goers'[a].state = "FleeingState"
                  /\ ~goers'[a].alreadyCalledOnce
                  /\ goers'[a].target = Null
                  /\ goers'[a].path = "null"
                  /\ goers'[a].pathfindingTargetPos = Null
                  /\ a \notin Entered']_vars

\* C19 happens: a collision pass has ended in which an actor that was seeking
\* a usable tent overlapped both that tent and the effect area; it flees and the
\* tent is still usable.
C19_Witness ==
    /\ updateIndex = 1
    /\ \E a \in GoersOf(World), t \in TentsOf(World) :
          /\ OverlapsPissArea(a)
          /\ goers[a].at = t
          /\ IsUsable(tents[t])
          /\ goers[a].state = "FleeingState"
          /\ Len(goers[a].log) = 7
          /\ goers[a].log[1].state = "TargetSeekingState"

\* C20 (as claimed): _handleCollision is called for a pair only while both
\* objects of the pair are enabled.
C20_HandledPairsEnabled ==
    \A call \in handled : call.objectEnabled /\ call.otherEnabled

\* The calls of enter() in a log.
Enters(log) == {i \in DOMAIN log : log[i].op = "enter"}

\* C21: a collision pass in which the player overlaps the enabled Tequila runs
\* pickedUp once: the Tequila made one transition to PickedUpPowerupState and is
\* disabled, the player entered one BigPissState; a pass without that overlap
\* leaves the Tequila alone, and no other step picks it up.  In every state the
\* Tequila is enabled if and only if its state is AvailablePowerupState.
C21_PickedUpOncePerAvailability ==
    /\ [](tequila.enabled <=> tequila.state = "AvailablePowerupState")
    /\ [][IF /\ updateIndex > Len(worldObjects)
             /\ tequila.enabled
             /\ Collision(World, PlayerId, TequilaId)
          THEN /\ tequila'.state = "PickedUpPowerupState"
               /\ ~tequila'.enabled
               /\ tequila'.log = <<Event("start", "AvailablePowerupState", "", tequila.enters),
                                   Event("exit", "AvailablePowerupState", "", tequila.enters),
                                   Event("set", "PickedUpPowerupState", "", 0),
                                   Event("enter", "PickedUpPowerupState", "", 1)>>
               /\ player'.state = "BigPissState"
               /\ Cardinality(Enters(player'.log)) = 1
               /\ Cardinality({call \in handled' : call.otherObject = TequilaId
                                                    /\ call.object = PlayerId}) = 1
          ELSE /\ updateIndex > Len(worldObjects) => tequila' = tequila
               /\ tequila.state = "AvailablePowerupState"
                     => tequila'.state = "AvailablePowerupState"]_vars

\* C21 happens: the Tequila was picked up by the player in the collision pass of
\* the last frame.
C21_Witness ==
    /\ tequila.state = "PickedUpPowerupState"
    /\ ~tequila.enabled
    /\ player.state = "BigPissState"
    /\ updateIndex = 1
    /\ frame = MaxFrames + 1
    /\ [object |-> PlayerId, otherObject |-> TequilaId,
        objectEnabled |-> TRUE, otherEnabled |-> TRUE] \in handled

\* The Tequila went back to AvailablePowerupState in the update of this frame
\* (the collision pass of the same frame may have picked it up again).
RespawnedInFrame ==
    tequila'.state = "AvailablePowerupState" \/ PickedUpInPass(handled')

\* C22 (as claimed): a picked-up Tequila respawns in the first update made after
\* respawnTime has elapsed since it was picked up, and in no update before.
C22_RespawnsInFirstUpdateAfterDelay ==
    [][tequila.state = "PickedUpPowerupState"
          => (RespawnedInFrame <=> now' > enteredAt + TEQUILA_RESPAWN_TIME)]_vars

\* What Powerup.update does: the Tequila respawns in the first update made more
\* than respawnTime after the first update that followed the pickup.
RespawnsAfterTimerDelay ==
    [][tequila.state = "PickedUpPowerupState"
          => (RespawnedInFrame <=> /\ tequila.alreadyCalledOnce
                                   /\ now' > tequila.lastStart + TEQUILA_RESPAWN_TIME)]_vars

\* C23 (as claimed): spawnObjectOfType with a type that is not one of the
\* spawnable classes throws and leaves worldObjects, worldObjectsByID and the id
\* counter as they were; with a spawnable class it adds one object with the next
\* id, which no object had before, to both.
C23_UnknownTypeThrows ==
    [][spawnCall' # spawnCall \/ maxId' # maxId \/ Len(worldObjects') > Len(worldObjects)
          => IF spawnCall' \in SPAWNABLE_OBJECT_CLASSES
             THEN /\ ~threw'
                  /\ maxId \notin DOMAIN objectClasses
                  /\ maxId' = maxId + 1
                  /\ worldObjects' = Append(worldObjects, maxId)
                  /\ worldObjectsByID' = worldObjectsByID \cup {maxId}
                  /\ objectClasses'[maxId] = spawnCall'
             ELSE /\ threw'
                  /\ UNCHANGED <<worldObjects, worldObjectsByID, maxId>>]_vars

\* The grid has GRID_ROWS rows of GRID_COLS tiles each.
GridShape(grid) ==
    /\ DOMAIN grid = 0..(GRID_ROWS - 1)
    /\ \A y \in DOMAIN grid : DOMAIN grid[y] = 0..(GRID_COLS - 1)

\* The tile written by a call: what setTo says, or for a toggle AI_UNWALKABLE
\* for a WALKABLE tile and WALKABLE for any other.
Written(old, setTo) ==
    IF setTo # <<>> THEN setTo[1] ELSE IF old = WALKABLE THEN AI_UNWALKABLE ELSE WALKABLE

\* C24: for a tile coordinate outside the grid getGridTile returns null and
\* setGridTile and toggleGridTile leave every tile as it is; for one inside the
\* grid they read or write that tile and no other; the grid keeps its rows and
\* columns.
C24_OutOfRangeTilesIgnored ==
    [][LET call == gridCall'
           point == call.point
       IN  call.op \in {"getGridTile", "setGridTile", "toggleGridTile"} =>
             /\ GridShape(tileGrid')
             /\ IF point \notin GridTiles
                THEN tileGrid' = tileGrid /\ call.result = <<>>
                ELSE IF call.op = "getGridTile"
                THEN tileGrid' = tileGrid /\ call.result = <<tileGrid[point.y][point.x]>>
                ELSE \A tile \in GridTiles :
                        tileGrid'[tile.y][tile.x] =
                            IF tile = point
                            THEN Written(tileGrid[tile.y][tile.x], call.setTo)
                            ELSE tileGrid[tile.y][tile.x]]_vars

\* C24 happens: a write to a tile outside the grid was made on a grid that an
\* earlier write or toggle had changed.
C24_Witness ==
    /\ gridCall.op \in {"setGridTile", "toggleGridTile"}
    /\ gridCall.point \notin GridTiles
    /\ \E tile \in GridTiles : tileGrid[tile.y][tile.x] = UNWALKABLE

\* The position lies on the tile.
OnTile(pos, tile) ==
    /\ tile.x * GRID_UNIT <= pos.x /\ pos.x < (tile.x + 1) * GRID_UNIT
    /\ tile.y * GRID_UNIT <= pos.y /\ pos.y < (tile.y + 1) * GRID_UNIT

\* C26: toGridCoords returns a tile of the grid for every position, the tile
\* the position lies on when it lies on the grid; toGridCoordsUnclamped returns
\* the tile the position lies on, which is a tile of the grid only for a
\* position on the grid.
C26_ToGridCoordsInGrid ==
    [][LET call == gridCall'
           pos == call.point
           onGrid == \E tile \in GridTiles : OnTile(pos, tile)
       IN  /\ call.op = "toGridCoords" =>
                /\ call.result[1] \in GridTiles
                /\ onGrid => OnTile(pos, call.result[1])
           /\ call.op = "toGridCoordsUnclamped" =>
                /\ OnTile(pos, call.result[1])
                /\ call.result[1] \in GridTiles <=> onGrid]_vars

\* C26 happens: toGridCoords was called with a position right of and below the
\* grid and returned the last tile.
C26_Witness ==
    /\ gridCall.op = "toGridCoords"
    /\ gridCall.point.x >= GRID_COLS * GRID_UNIT
    /\ gridCall.point.y >= GRID_ROWS * GRID_UNIT
    /\ gridCall.result = <<[x |-> GRID_COLS - 1, y |-> GRID_ROWS - 1]>>

\* C25: the cursor of the Path an actor follows stays within 0..points.length,
\* and getNextPoint() is null exactly when the cursor is at points.length or
\* beyond; as long as the actor keeps the Path its points stay and the cursor
\* stays or goes up by one per update, in which advance() is called at most once.
C25_PathCursorOnlyAdvances ==
    /\ [](~seeker.path.isNull
             => /\ seeker.path.nextPointIndex \in 0..Len(seeker.path.points)
                /\ GetNextPoint(seeker.path) = <<>>
                      <=> seeker.path.nextPointIndex >= Len(seeker.path.points))
    /\ [][~seeker.path.isNull /\ ~seeker'.path.isNull
             => /\ seeker'.path.points = seeker.path.points
                /\ seeker'.path.nextPointIndex - seeker.path.nextPointIndex \in {0, 1}]_vars

\* C25 happens: the actor has walked a path of several points to its end.
C25_Witness ==
    /\ ~seeker.path.isNull
    /\ Len(seeker.path.points) >= 2
    /\ seeker.path.nextPointIndex = Len(seeker.path.points)

\* C29: the callback of a search runs inside the call of findPath, in the
\* actor's own update, so no clearTarget comes between the two: a path is set
\* only in the update of the actor, which has a target and a
\* pathfindingTargetPos when the path is set; an actor whose target is cleared
\* while isPathfinding is set has no path afterwards; and path is never non-null
\* while pathfindingTargetPos is null.
C29_NoResultAfterClearTarget ==
    /\ [](\A a \in DOMAIN goers :
             goers[a].path # "null" => goers[a].pathfindingTargetPos # Null)
    /\ [][\A a \in DOMAIN goers :
             /\ goers[a].path = "null" /\ goers'[a].path # "null"
                   => /\ IsUpdateOf(a)
                      /\ ~goers[a].isPathfinding /\ ~goers'[a].isPathfinding
                      /\ goers'[a].target # Null
                      /\ goers'[a].pathfindingTargetPos # Null
             /\ goers[a].isPathfinding /\ goers'[a].target = Null
                   => goers'[a].path = "null"]_vars

\* C29 happens: an actor asked for a search, which did not answer with a path,
\* and was then hit by the effect area, which cleared its target.
C29_Witness ==
    \E a \in DOMAIN goers :
        /\ a \in worldObjectsByID
        /\ goers[a].isPathfinding
        /\ goers[a].state = "FleeingState"
        /\ goers[a].target = Null
        /\ goers[a].path = "null"

\* C30: an autonomous actor that has a path has a target and a
\* pathfindingTargetPos; one in TargetSeekingState has both as well; and a step
\* that sets its target to null sets path and pathfindingTargetPos to null and
\* leaves it in IdleState or FleeingState.
C30_TargetPathStateConsistent ==
    /\ [](\A a \in DOMAIN goers :
             goers[a].path # "null" \/ goers[a].state = "TargetSeekingState"
                => goers[a].target # Null /\ goers[a].pathfindingTargetPos # Null)
    /\ [][\A a \in DOMAIN goers :
             goers[a].target # Null /\ goers'[a].target = Null
                => /\ goers'[a].path = "null"
                   /\ goers'[a].pathfindingTargetPos = Null
                   /\ goers'[a].state \in {"IdleState", "FleeingState"}]_vars

\* C30 happens: an actor that had found a path to its tent is back in IdleState
\* without target and path, its TargetSeekingState having cleared the target.
C30_Witness ==
    \E a \in DOMAIN goers :
        /\ a \in worldObjectsByID
        /\ goers[a].state = "IdleState"
        /\ goers[a].target = Null
        /\ goers[a].path = "null"
        /\ goers[a].pathfindingTargetPos = Null
        /\ ~goers[a].isPathfinding
        /\ \E i \in DOMAIN goers[a].log :
              goers[a].log[i].op = "exit" /\ goers[a].log[i].state = "TargetSeekingState"

\* The right edge of a is left of the left edge of b.
LeftOf(a, b) == a.pos.x + a.bboxEnd.x < b.pos.x + b.bboxStart.x

\* The lower edge of a is above the upper edge of b.
AboveOf(a, b) == a.pos.y + a.bboxEnd.y < b.pos.y + b.bboxStart.y

\* C27: collision(a, b) equals collision(b, a), and it is true exactly when
\* neither object is strictly left of or strictly above the other, so that
\* boxes that only touch count as overlapping.
C27_CollisionSymmetric ==
    collisionCall.result # <<>> =>
        LET a == collisionCall.a
            b == collisionCall.b
        IN  /\ collisionCall.result[1] = collision(b, a)
            /\ collisionCall.result[1]
                  <=> ~(LeftOf(a, b) \/ LeftOf(b, a) \/ AboveOf(a, b) \/ AboveOf(b, a))

\* C27 happens: collision was called on two boxes of different size that only
\* touch on an edge, and returned true.
C27_Witness ==
    /\ collisionCall.result # <<>>
    /\ collisionCall.a.pos.x + collisionCall.a.bboxEnd.x
          = collisionCall.b.pos.x + collisionCall.b.bboxStart.x
    /\ collisionCall.a.bboxEnd # collisionCall.b.bboxEnd
    /\ collisionCall.result = <<TRUE>>

\* The coloring a recompute over the tents as they are would produce.
FromScratch == CheckForTentGroupsAdjacent(World, tentAdjacencies).tentGroups

\* The tents whose ruined or occupied status the step changes.
StatusChanged ==
    {t \in DOMAIN tents :
        \/ IsRuinedByPlayer(tents'[t]) # IsRuinedByPlayer(tents[t])
        \/ tents'[t].occupied # tents[t].occupied}

\* C28 (as claimed): at the end of every frame, from the start of the game on,
\* tentGroups is the coloring a recompute over the current tents would produce.
C28_GroupsCurrentFromStart ==
    frame > 1 /\ updateIndex = 1 => tentGroups = FromScratch

\* C28: a handler that changes the ruined or occupied status of a tent runs the
\* recompute, and from the first recompute of the game on tentGroups is the
\* coloring a recompute over the current tents would produce; until then it is
\* empty.
C28_GroupsCurrentOnceRecomputed ==
    /\ [](IF recomputed THEN tentGroups = FromScratch
          ELSE \A t \in DOMAIN tents : tentGroups[t] = "none")
    /\ [][StatusChanged # {} => recomputed']_vars

\* C28 happens: a frame has ended with one tent ruined and the other occupied,
\* which the coloring shows as red.
C28_Witness ==
    /\ frame > 1 /\ updateIndex = 1
    /\ recomputed
    /\ \E t, u \in DOMAIN tents :
          /\ IsRuinedByPlayer(tents[t])
          /\ tents[u].occupied /\ tentGroups[u] = "red"

-----------------------------------------------------------------------------
(* C31: the update loop and the collision pass of a frame *)

\* How often obj is listed in list.
Count(list, obj) == Cardinality({i \in DOMAIN list : list[i] = obj})

\* The update loop of the running frame has ended and the collision pass has not
\* started.
UpdatePhaseEnded == screen = "play" /\ updateIndex > Len(worldObjects)

\* C31: in every frame on the 'play' screen each object that is in the world when
\* the update loop ends has had update() called exactly once in that frame,
\* whatever was added or removed during the loop; _handleCollision is called
\* only once the update loop has ended; and on the 'title' screen no object is
\* updated and no collision is handled.
C31_EachEntityUpdatedOnce ==
    /\ [](UpdatePhaseEnded =>
            \A obj \in SeqToSet(worldObjects) : Count(updates, obj) = 1)
    /\ [](screen = "title" => updates = <<>> /\ handled = {})
    /\ [][/\ handled' # handled => UpdatePhaseEnded
          /\ updates' # updates /\ updates' # <<>> => handled' = handled
          /\ screen = "title" => updates' = updates /\ handled' = handled]_vars

\* The update loop of a frame has ended in which the update of the player, the
\* game having been started from the title screen, left a FreePissingState (and
\* so removed the PissArea from the array while the loop was running) with a
\* person listed after the player that was updated after it.
C31_Witness ==
    /\ UpdatePhaseEnded
    /\ frame >= 3
    /\ PissAreaId \notin worldObjectsByID
    /\ player.log[1].state = "FreePissingState"
    /\ \E i \in DOMAIN player.log :
          player.log[i].op = "exit" /\ player.log[i].state = "FreePissingState"
    /\ \E a \in LifeGoers : Count(updates, a) = 1
    /\ Len(updates) = Len(worldObjects)

-----------------------------------------------------------------------------
(* C37: the player's piss *)

\* C37: Player.piss stays within 0..MAX_PISS in every reachable state: neither
\* the regeneration of Player.update nor the Water takes it above MAX_PISS, and
\* the decrement of FreePissingState does not take it below 0.
C37_PissWithinBounds == player.piss >= 0 /\ player.piss <= MAX_PISS

\* Player.piss never goes above MAX_PISS.
PissAtMostMax == player.piss <= MAX_PISS

-----------------------------------------------------------------------------
(* C32: the PissArea of FreePissingState *)

\* Player.piss as the next Player.update reads it, after its adjustPiss(0.005).
PissRead == Min(player.piss + PISS_REGENERATION, MAX_PISS)

\* C32: between two frames the world holds at most one PissArea, and holds one
\* exactly when the player is in FreePissingState, whichever way the state was
\* left (the attack key released, piss <= 0, or a Tequila picked up); and a
\* frame whose Player.update finds the player in FreePissingState with the
\* attack key up or piss <= 0 ends with the player in another state.
C32_PissAreaWhileFreePissing ==
    /\ [](/\ Count(worldObjects, PissAreaId) <= 1
          /\ PissAreaId \in SeqToSet(worldObjects) <=> player.state = "FreePissingState"
          /\ PissAreaId \in worldObjectsByID <=> player.state = "FreePissingState")
    /\ [][/\ player.state = "FreePissingState"
          /\ ~player'.attack \/ PissRead <= 0
          => player'.state # "FreePissingState"]_vars

\* A Tequila was picked up by a player in FreePissingState, who is in BigPissState
\* now, and the PissArea is gone.
C32_Witness ==
    /\ player.state = "BigPissState"
    /\ player.log[1] = Event("start", "FreePissingState", "", 1)
    /\ PissAreaId \notin SeqToSet(worldObjects)

\* A FreePissingState was left in the update that read piss <= 0 with the attack
\* key down.
C32_WitnessOutOfPiss ==
    /\ player.state = "IdleState"
    /\ player.attack
    /\ player.piss <= 0
    /\ \E i \in DOMAIN player.log :
          player.log[i] = Event("update", "FreePissingState", "IdleState", 0)
    /\ PissAreaId \notin SeqToSet(worldObjects)

-----------------------------------------------------------------------------
(* C33: the intersection a tent records and the update that applies it *)

\* The tents the PissArea overlaps.
UnderPissArea == {t \in TentIds : pissArea.tent /\ pissArea.at = t}

\* C33: the collision pass changes no pissiness, and on the tents it only sets
\* intersectingPissArea, on tents the PissArea overlaps; the pissiness of a tent
\* changes only in the update of that tent; every Tent.update leaves
\* intersectingPissArea null; and the pissiness goes up only in an update that
\* found intersectingPissArea set, by one.
C33_IntersectionAppliedOnceNextUpdate ==
    [][\A t \in TentIds :
         /\ IsCollisionPass =>
               /\ tents'[t].pissiness = tents[t].pissiness
               /\ t \in intersecting => t \in intersecting'
               /\ t \in intersecting' \ intersecting => t \in UnderPissArea
         /\ tents'[t].pissiness # tents[t].pissiness => IsUpdateOf(t)
         /\ IsUpdateOf(t) => t \notin intersecting'
         /\ tents'[t].pissiness > tents[t].pissiness =>
               /\ t \in intersecting
               /\ tents'[t].pissiness = tents[t].pissiness + 1]_vars

\* A tent has just been updated with the intersection the last collision pass
\* recorded: its pissiness went up, the 100 points were added, and
\* intersectingPissArea is null.
C33_Witness ==
    \E t \in TentIds :
        /\ updateIndex > 1
        /\ worldObjects[updateIndex - 1] = t
        /\ updates # <<>>
        /\ updates[Len(updates)] = t
        /\ scoreGain >= PISS_SCORE
        /\ tents[t].pissiness = 2
        /\ t \notin intersecting

-----------------------------------------------------------------------------
(* C34, C35: the cooldowns of a tent *)

\* By how much the pissiness of the tents went up in the step.
RECURSIVE PissIncrements(_)
PissIncrements(n) ==
    IF n = 0 THEN 0
    ELSE PissIncrements(n - 1)
         + (IF tents'[n].pissiness > tents[n].pissiness
            THEN tents'[n].pissiness - tents[n].pissiness ELSE 0)

\* C34: a tent's pissiness goes up by one at a time, each time more than
\* PISS_TIME after the time it last went up (pissLastStart, which changes with
\* the pissiness going up and at no other time), and the score of a frame is 100
\* for each such increment, besides the 100 of a smash started and the 500 of
\* each tent captured in the frame.
C34_PissIncrementsThrottled ==
    [][/\ \A t \in TentIds :
            /\ tents'[t].pissiness > tents[t].pissiness =>
                  /\ tents'[t].pissiness = tents[t].pissiness + 1
                  /\ now' > tents[t].pissLastStart + TENT_PISS_TIME
                  /\ tents'[t].pissLastStart = now'
            /\ tents'[t].pissiness <= tents[t].pissiness =>
                  tents'[t].pissLastStart = tents[t].pissLastStart
       /\ scoreGain' = PISS_SCORE * PissIncrements(Len(tents))
                       + SMASH_SCORE * (player.energy - player'.energy)
                       + CAPTURE_BONUS * Cardinality(bonusAwarded')]_vars

\* A tent was pissed on for the second time, in a frame that is less than
\* 3 * PISS_TIME after the game started.
C34_Witness ==
    \E t \in TentIds :
        /\ tents[t].pissiness = 2
        /\ tents[t].pissLastStart = now
        /\ now <= GameStart + 3 * TENT_PISS_TIME
        /\ scoreGain = PISS_SCORE


\* The pissiness of a tent goes down by one at a time, only from a pissiness
\* between 0 and MAX_PISSINESS, and no sooner than DRYING_TIME after it last
\* went down or up (dryLastStart).
DriesOnlyAfterDryingTime ==
    [][\A t \in TentIds :
         tents'[t].pissiness < tents[t].pissiness =>
            /\ tents'[t].pissiness = tents[t].pissiness - 1
            /\ tents[t].pissiness > 0 /\ tents[t].pissiness < MAX_PISSINESS
            /\ now' > tents[t].dryLastStart + DRYING_TIME]_vars

\* C35: the pissiness of a tent goes down only by drying, by one at a time, only
\* from a pissiness between 0 and MAX_PISSINESS, no sooner than DRYING_TIME after
\* it last went down or up, and never in an update that found the tent recorded
\* as intersected by the PissArea.
C35_DriesOnlyWhenNotIntersected ==
    [][\A t \in TentIds :
         tents'[t].pissiness < tents[t].pissiness =>
            /\ tents'[t].pissiness = tents[t].pissiness - 1
            /\ tents[t].pissiness > 0 /\ tents[t].pissiness < MAX_PISSINESS
            /\ now' > tents[t].dryLastStart + DRYING_TIME
            /\ t \notin intersecting]_vars

\* The player's update of the last frame entered a SmashingState.
SmashStarted(p) ==
    \E i \in DOMAIN p.log : p.log[i] = Event("enter", "SmashingState", "", 1)

\* The player's update of the last frame left a SmashingState.
SmashExited(p) ==
    \E i \in DOMAIN p.log : p.log[i].op = "exit" /\ p.log[i].state = "SmashingState"

\* C36, the ranges: in every reachable state every tent has
\* 0 <= pissiness <= MAX_PISSINESS and 0 <= damageTaken <= MAX_DAMAGE, and the
\* player has 0 <= energy <= MAX_ENERGY.
C36_Ranges ==
    /\ \A t \in DOMAIN tents :
          /\ tents[t].pissiness \in 0..MAX_PISSINESS
          /\ tents[t].damageTaken \in 0..MAX_DAMAGE
    /\ player.energy \in 0..MAX_ENERGY

\* C36: the ranges hold in every reachable state; a frame in which a smash is
\* started begins with energy > 0 and with the target's damageTaken below
\* MAX_DAMAGE, and costs one energy; a frame in which the SmashingState is left
\* raises the damageTaken of its target by exactly one and that of no other tent.
C36_DamageAndEnergyBounded ==
    [][/\ C36_Ranges /\ C36_Ranges'
       /\ SmashStarted(player') =>
             /\ player.energy > 0
             /\ tents[player'.target].damageTaken < MAX_DAMAGE
             /\ player'.energy \in {player.energy - 1,
                                    Min(player.energy - 1 + CHEESE_SANDWICH_VALUE,
                                        MAX_ENERGY)}
       /\ \A t \in DOMAIN tents :
             tents'[t].damageTaken =
                 IF SmashExited(player') /\ player.target = t
                 THEN tents[t].damageTaken + 1
                 ELSE tents[t].damageTaken]_vars

\* C36 witness: the energy was spent to 0 on three smashes, the last of them
\* is over, and all three tents took their damage.
C36_Witness ==
    /\ CheeseSandwichId \in DOMAIN powerups
    /\ DOMAIN tents = 1..EnergyTents
    /\ \A t \in DOMAIN tents : tents[t].damageTaken = MAX_DAMAGE
    /\ player.energy = 0
    /\ SmashExited(player)

\* C36, the cap: the energy stands at MAX_ENERGY after a CheeseSandwich that
\* would have taken it past.
C36_WitnessCap ==
    /\ CheeseSandwichId \in DOMAIN powerups
    /\ player.energy = MAX_ENERGY
    /\ ~powerups[CheeseSandwichId].enabled

\* C38: no tent is both occupied and captured, and neither flag is reset: a step
\* leaves an occupied tent occupied and a captured tent captured.
C38_OccupiedXorCapturedForGood ==
    [][/\ \A t \in DOMAIN tents : ~(tents[t].occupied /\ tents[t].captured)
       /\ \A t \in DOMAIN tents' : ~(tents'[t].occupied /\ tents'[t].captured)
       /\ \A t \in DOMAIN tents \cap DOMAIN tents' :
             /\ tents[t].occupied => tents'[t].occupied
             /\ tents[t].captured => tents'[t].captured]_vars

\* C38 witness: an actor has entered one tent and the other one is captured, with
\* frames still to come.
C38_Witness ==
    /\ screen = "play"
    /\ frame < MaxFrames
    /\ \E t \in DOMAIN tents, u \in DOMAIN tents :
          /\ tents[t].occupied /\ occupants[t] # <<>>
          /\ tents[u].captured

\* C39: a step leaves a ruined tent ruined: it lowers no damageTaken and no
\* pissiness that stands at MAX_PISSINESS; and the connected group of non-ruined
\* tents that a tent is in after the step lies within the group it was in before.
C39_RuinedForGood ==
    [][/\ \A t \in TentIds :
             /\ IsRuinedByPlayer(tents[t]) => IsRuinedByPlayer(tents'[t])
             /\ tents'[t].damageTaken >= tents[t].damageTaken
             /\ tents'[t].pissiness < tents[t].pissiness =>
                   tents[t].pissiness < MAX_PISSINESS
       /\ \A t \in NonRuined' : Components'[t] \subseteq Components[t]]_vars

\* C39 witness: a group has split: two non-ruined tents are linked to one ruined
\* tent and are in different groups, one tent is ruined by pissiness and one by
\* damage, and a tent below MAX_PISSINESS can still dry.
C39_Witness ==
    /\ \E u \in NonRuined, v \in NonRuined, w \in TentIds \ NonRuined :
          /\ Linked(w, u) /\ Linked(w, v)
          /\ v \notin ComponentOf(u)
          /\ tents[u].pissiness > 0
    /\ \E w \in TentIds : tents[w].pissiness = MAX_PISSINESS
    /\ \E w \in TentIds : tents[w].damageTaken = MAX_DAMAGE

\* The frame leaves the SmashingState the player is in: the smoke animation is
\* removed and the target takes its damage.
SmashingLeft ==
    /\ player'.state # "SmashingState"
    /\ SmokeId \notin SeqToSet(worldObjects')
    /\ tents'[player.target].damageTaken = tents[player.target].damageTaken + 1

\* C40: a frame that finds the player in SmashingState and whose update is made
\* more than 300 ms after the first update of the state leaves the state,
\* removes the smoke animation and applies the damage; and no update moves the
\* player while in SmashingState.
C40_SmashingEndsAfterOwnDuration ==
    [][player.state = "SmashingState" =>
          /\ now' > enteredAt + SMASHING_DURATION => SmashingLeft
          /\ player'.at = player.at]_vars

\* What holds instead of C40: the delay of TimedAttackState applies.  A frame
\* whose update is more than 1000 ms after the first update of the SmashingState
\* leaves it; an earlier one leaves it only for the Tequila; no update moves the
\* player while in SmashingState.
SmashingEndsAfterTimedAttackDuration ==
    [][player.state = "SmashingState" =>
          /\ now' > enteredAt + TIMED_ATTACK_DURATION => SmashingLeft
          /\ now' <= enteredAt + TIMED_ATTACK_DURATION =>
                player'.state \in {"SmashingState", "BigPissState"}
          /\ player'.at = player.at]_vars

-----------------------------------------------------------------------------
Init == GroupInit

Next == GroupNext

Spec == Init /\ [][Next]_vars

====
